---- MODULE Spec2Model ----
(***************************************************************************)
(* quarto-record-demo: the run orchestrator (main.ts) and the preview      *)
(* lifecycle controller (quarto.ts: startQuartoPreview,                    *)
(* waitForQuartoServer, stopQuartoPreview) as one state machine.           *)
(*                                                                         *)
(* One action is one turn of the Deno event loop: everything the program   *)
(* does between two awaits that wait for the outside world (a stream read, *)
(* a timer, a subprocess, a process exit).  Promise continuations          *)
(* (microtasks) run inside the action that triggers them.                  *)
(*                                                                         *)
(* Time is kept as the remaining delay of every pending setTimeout; Tick   *)
(* lets time pass, never past the deadline of a timer that is still        *)
(* awaited (the event loop is idle while main awaits, so a due timer fires *)
(* before more time passes).  No timer is ever cancelled: a timer that     *)
(* lost its Promise.race stays pending, and since its firing can no longer *)
(* be told from the program's state, the model drops its deadline and      *)
(* lets it fire at any later moment.                                       *)
(***************************************************************************)
EXTENDS Integers, Sequences, FiniteSets, TLC

VARIABLES
  pc,        \* where main()/processItem()/stopQuartoPreview() is suspended
  argv,      \* Deno.args, the command line after the script name
  opts,      \* the options parseArgs returned
  screenRect, \* main's screenRect ("none" until getLastSelectionRect returned)
  items,     \* the item list of the run (commit hashes or profile names)
  idx,       \* the for loop's i, 1-based; items[idx] is being processed
  sysRect,   \* the last-selection rectangle in the screencapture preferences
  workspace, \* the commit checked out in the input directory (0: as found)
  dirs,      \* item ids whose output directory exists
  shots,     \* item ids whose screenshot.png exists (non-empty)
  shotRects, \* the rectangles captureScreen has been called with
  copies,    \* item ids whose copied file exists
  tracked,   \* per item position: the process spawn() returned
  orphan,    \* per item position: "alive" while a deno descendant runs quarto.ts preview
  previews,  \* per item position: what startQuartoPreview was called with
  timers,    \* pending setTimeout callbacks: [kind, item, rem]
  url,       \* waitForQuartoServer's `url` of the current start
  scan,      \* processStderr of the current start: idle/reading/settling/returned/thrown
  race,      \* per item position: how Promise.race of waitForQuartoServer settled
  seen,      \* what the current start's stderr has carried (kept until the capture)
  elapsed,   \* ms since the current start's timeout timer was set (kept until the capture)
  stopped,   \* per item position: how far stopQuartoPreview got
  stopFail,  \* the steps of the item's stopQuartoPreview that failed
  stopLog,   \* the signals and commands the item's stopQuartoPreview issued, in order
  nStart,    \* calls of startQuartoPreview that spawned
  nStop,     \* calls of stopQuartoPreview
  stopArg,   \* the argument of the latest call of stopQuartoPreview
  drain,     \* logStdout of the latest preview: "none", "reading" or
             \* "released" (the loop is over and the lock released); the
             \* drain of an earlier preview is followed until the next spawn
  outSeen,   \* whether stdout carried, while the current start was waiting,
             \* a listening line with a request marker in one chunk
  staleFired, \* the kinds of timer left by an earlier item that have fired
             \* since the loop took up the current item (followed only by
             \* the specification that observes the firings)
  failure,   \* the error that reached main's catch ("" when none)
  exitCode   \* <<>> while running, <<code>> after Deno.exit(code)

vars == <<pc, argv, opts, screenRect, items, idx,
          sysRect, workspace, dirs, shots, shotRects, copies,
          tracked, orphan, previews, timers, url, scan, race, seen, elapsed,
          stopped, stopFail, stopLog, nStart, nStop, stopArg, drain,
          outSeen, staleFired,
          failure, exitCode>>

mainVars == <<argv, opts, screenRect, items, idx>>
fsVars == <<sysRect, workspace, dirs, shots, shotRects, copies>>
procVars == <<tracked, orphan>>
scanVars == <<url, scan, seen, elapsed>>
stopVars == <<stopped, stopFail, stopLog>>
countVars == <<nStart, nStop>>
outVars == <<drain, outSeen>>

----------------------------------------------------------------------------
(* Bounds of the model *)

MaxItems == 2       \* items of a run
MaxChunks == 2      \* stderr chunks read by one start
MaxChunkLen == 2    \* markers carried by one stderr chunk

(* Program constants *)

StartTimeoutMs == 60000
SettleDelayMs == 500
ExitWaitMs == 2000
SweepPauseMs == 500

Positions == 1..MaxItems

(* The instants, counted from spawn, at which the environment may let the
   preview write to stderr, besides "at once" and "at a timer's deadline":
   less than the settle delay before the start timeout, and exactly the
   settle delay before it. *)
EnvDelays == {StartTimeoutMs - SettleDelayMs, StartTimeoutMs - (SettleDelayMs \div 2)}

----------------------------------------------------------------------------
(* stderr text.  A chunk is the sequence of the markers it carries, in
   textual order, whatever other text surrounds them: "L1"/"L2" a line
   "Listening on http://host1/" resp. ".../host2/", "G" a line containing
   "GET:".  A chunk of other text only is <<>>. *)

Tokens == {"L1", "L2", "G"}

ChunkSet == UNION {[1..n -> Tokens] : n \in 0..MaxChunkLen}

IsListening(tok) == tok \in {"L1", "L2"}

UrlOf(tok) == IF tok = "L1" THEN "http://host1" ELSE "http://host2"

\* text.match(/Listening on (http:\/\/[^\/\s]+)/): the first match, 0 if none
listeningMatch(text) ==
  IF \E i \in 1..Len(text) : IsListening(text[i])
  THEN CHOOSE i \in 1..Len(text) :
         /\ IsListening(text[i])
         /\ \A j \in 1..(i - 1) : ~IsListening(text[j])
  ELSE 0

\* text.includes("GET:")
includesGET(text) == \E i \in 1..Len(text) : text[i] = "G"

\* the place of the last listening line of a chunk, 0 if none
lastListening(text) ==
  IF \E i \in 1..Len(text) : IsListening(text[i])
  THEN CHOOSE i \in 1..Len(text) :
         /\ IsListening(text[i])
         /\ \A j \in (i + 1)..Len(text) : ~IsListening(text[j])
  ELSE 0

\* what one chunk, read `now` ms after the spawn, adds to the record of what
\* stderr has carried: how many chunks, whether a listening line, the first
\* listening line of the stream and the latest one, whether a request
\* marker, whether a chunk had a request marker before a listening line of
\* its own, whether a request marker with or after a listening line and when
\* the first such came, whether the stream ended
SeenAfter(s, text, now) ==
  LET l == s.listening \/ listeningMatch(text) # 0
  IN  [n |-> s.n + 1,
       listening |-> l,
       first |-> IF s.first = "" /\ listeningMatch(text) # 0
                 THEN text[listeningMatch(text)] ELSE s.first,
       last |-> IF listeningMatch(text) # 0
                THEN text[lastListening(text)] ELSE s.last,
       marker |-> s.marker \/ includesGET(text),
       markerFirst |-> s.markerFirst \/
                       \E i \in 1..Len(text) :
                         text[i] = "G" /\ i < listeningMatch(text),
       markerAfter |-> s.markerAfter \/ (includesGET(text) /\ l),
       at |-> IF ~s.markerAfter /\ includesGET(text) /\ l THEN now ELSE s.at,
       ended |-> FALSE]

NoneSeen ==
  [n |-> 0, listening |-> FALSE, first |-> "", last |-> "", marker |-> FALSE,
   markerFirst |-> FALSE,
   markerAfter |-> FALSE, at |-> -1, ended |-> FALSE]

----------------------------------------------------------------------------
(* Helpers *)

\* a reversal that leaves the list as it is
Reverse_Unchanged(s) == s

\* Array.prototype.reverse (git.ts 50)
Reverse(s) == [i \in 1..Len(s) |-> s[Len(s) + 1 - i]]

Running == exitCode = <<>>

\* the identifier of item k as a string (a commit hash or a profile name)
ItemName(id) == "item" \o ToString(id)

\* the options of a run: every pair of values of two options occurs together
OptionSet ==
  {[mode |-> "history", copyFile |-> FALSE, file |-> FALSE],
   [mode |-> "history", copyFile |-> TRUE, file |-> TRUE],
   [mode |-> "profile", copyFile |-> FALSE, file |-> TRUE],
   [mode |-> "profile", copyFile |-> TRUE, file |-> FALSE]}

Timer(kind, k, ms) == [kind |-> kind, item |-> k, rem |-> ms]

\* the timers some await still waits for: the start timeout while the race
\* of its start is unsettled, the settle delay, the exit timer while the
\* race of its stop is unsettled, the pause after the sweep
Live(t) ==
  \/ t.kind = "startTimeout" /\ race[t.item] = "pending"
  \/ t.kind = "settle"
  \/ t.kind = "exitWait" /\ pc = "stop_wait" /\ idx = t.item
  \/ t.kind = "sweepPause"

LiveTimers == {t \in timers : Live(t)}

\* the timers that may fire now
Due == {t \in timers : t.rem = 0}

MinRem == CHOOSE m \in {t.rem : t \in LiveTimers} : \A t \in LiveTimers : m <= t.rem

\* the timer of `kind` set for item k has lost its race: it stays pending
\* and fires whenever
Abandoned(ts, kind, k) ==
  {IF t.kind = kind /\ t.item = k THEN [t EXCEPT !.rem = 0] ELSE t : t \in ts}

\* the record of stale firings after timer t has fired: a timer set for an
\* item before the current one is one left behind by that item
FiredAfter(t) == IF t.item < idx THEN staleFired \cup {t.kind} ELSE staleFired

\* Deno.exit(code): the process is gone, and its pending timers with it
Exit(code) ==
  /\ exitCode' = <<code>>
  /\ pc' = "exited"
  /\ timers' = {}

\* Fatal with main's catch exiting with the code of success
Fatal_ExitsZero(kind) ==
  /\ failure' = kind
  /\ Exit(0)

\* an error reaches main's catch (main.ts 147-150): message, Deno.exit(1)
Fatal(kind) ==
  /\ failure' = kind
  /\ Exit(1)

----------------------------------------------------------------------------
(* parseArgs (cli.ts), as a function of the command line *)

\* the most arguments a command line carries after OUTPUT_DIR
MaxArgs == 3

\* the tokens of a command line: the five flags, a flag the program does not
\* know, a number, a word and the empty string
ArgTokens == {"--input", "--file", "--start-commit", "--copy-file",
              "--profile-group", "--bogus", "1", "x", ""}

\* String.prototype.startsWith("--") on a token
startsWithDashes(tok) ==
  tok \in {"--input", "--file", "--start-commit", "--copy-file",
           "--profile-group", "--bogus"}

\* Number(tok): the empty string converts to 0, a numeral to its value,
\* anything else to NaN (-1 stands for NaN)
NumberOf(tok) == IF tok = "" THEN 0 ELSE IF tok = "1" THEN 1 ELSE -1

\* isNaN that takes every value for a number
isNaN_Never(n) == FALSE

isNaN(n) == n = -1

\* a string in a condition: undefined (<<>>) and "" are false
Truthy(opt) == opt # <<>> /\ opt[1] # ""

\* path.resolve against the working directory
resolve(path) == IF path \in {"", "."} THEN "/cwd" ELSE "/cwd/" \o path

\* the for loop of parseArgs from position i (1-based; position 1 is
\* OUTPUT_DIR): an optional value is <<>> when undefined and <<v>> otherwise,
\* error holds the message of the throw
RECURSIVE parseNamed(_, _, _)
parseNamed(args, i, acc) ==
  IF i > Len(args) THEN acc
  ELSE LET arg == args[i]
           hasNext == i + 1 <= Len(args)
       IN IF arg = "--input" /\ hasNext
          THEN parseNamed(args, i + 2, [acc EXCEPT !.inputDir = args[i + 1]])
          ELSE IF arg = "--file" /\ hasNext
          THEN parseNamed(args, i + 2, [acc EXCEPT !.file = <<args[i + 1]>>])
          ELSE IF arg = "--start-commit" /\ hasNext
          THEN parseNamed(args, i + 2,
                          [acc EXCEPT !.startCommit = <<args[i + 1]>>])
          ELSE IF arg = "--copy-file" /\ hasNext
          THEN parseNamed(args, i + 2,
                          [acc EXCEPT !.copyFile = <<args[i + 1]>>])
          ELSE IF arg = "--profile-group"
          THEN IF /\ hasNext
                  /\ ~isNaN(NumberOf(args[i + 1]))
                  /\ ~startsWithDashes(args[i + 1])
               THEN parseNamed(args, i + 2,
                      [acc EXCEPT !.profileGroupIndex =
                                     <<NumberOf(args[i + 1])>>])
               ELSE parseNamed(args, i + 1,
                      [acc EXCEPT !.profileGroupIndex = <<0>>])
          ELSE [acc EXCEPT !.error = "Unknown argument: " \o arg]

\* a loop that skips what it does not know
RECURSIVE parseNamed_IgnoresUnknown(_, _, _)
parseNamed_IgnoresUnknown(args, i, acc) ==
  IF i > Len(args) THEN acc
  ELSE LET arg == args[i]
           hasNext == i + 1 <= Len(args)
       IN IF arg = "--input" /\ hasNext
          THEN parseNamed_IgnoresUnknown(args, i + 2,
                 [acc EXCEPT !.inputDir = args[i + 1]])
          ELSE IF arg = "--file" /\ hasNext
          THEN parseNamed_IgnoresUnknown(args, i + 2,
                 [acc EXCEPT !.file = <<args[i + 1]>>])
          ELSE IF arg = "--start-commit" /\ hasNext
          THEN parseNamed_IgnoresUnknown(args, i + 2,
                 [acc EXCEPT !.startCommit = <<args[i + 1]>>])
          ELSE IF arg = "--copy-file" /\ hasNext
          THEN parseNamed_IgnoresUnknown(args, i + 2,
                 [acc EXCEPT !.copyFile = <<args[i + 1]>>])
          ELSE IF arg = "--profile-group"
          THEN IF /\ hasNext
                  /\ ~isNaN(NumberOf(args[i + 1]))
                  /\ ~startsWithDashes(args[i + 1])
               THEN parseNamed_IgnoresUnknown(args, i + 2,
                      [acc EXCEPT !.profileGroupIndex =
                                     <<NumberOf(args[i + 1])>>])
               ELSE parseNamed_IgnoresUnknown(args, i + 1,
                      [acc EXCEPT !.profileGroupIndex = <<0>>])
          ELSE parseNamed_IgnoresUnknown(args, i + 1, acc)

\* the skipping loop run over the whole command line
namedArgs_IgnoresUnknown(args) ==
  parseNamed_IgnoresUnknown(args, 2,
             [outputDir |-> args[1], inputDir |-> ".", file |-> <<>>,
              startCommit |-> <<>>, copyFile |-> <<>>,
              profileGroupIndex |-> <<>>, error |-> ""])

\* the loop run over the whole command line, from the defaults
namedArgs(args) ==
  parseNamed(args, 2,
             [outputDir |-> args[1], inputDir |-> ".", file |-> <<>>,
              startCommit |-> <<>>, copyFile |-> <<>>,
              profileGroupIndex |-> <<>>, error |-> ""])

\* what parseArgs returns for the command line args, or the error it throws
parsedArgs(args) ==
  IF Len(args) < 1
  THEN [outputDir |-> "", inputDir |-> "", file |-> <<>>,
        startCommit |-> <<>>, copyFile |-> <<>>, profileGroupIndex |-> <<>>,
        error |-> "Usage"]
  ELSE LET r == namedArgs(args)
       IN IF r.error # "" THEN r
          ELSE IF r.profileGroupIndex # <<>> /\ Truthy(r.startCommit)
          THEN [r EXCEPT !.error = "mutually exclusive"]
          ELSE [r EXCEPT !.outputDir = resolve(@),
                         !.inputDir = resolve(@),
                         !.copyFile = IF Truthy(@) THEN <<resolve(@[1])>>
                                      ELSE <<>>]

\* what the run reads of the options: the mode (main.ts 90), whether a file
\* is copied (main.ts 49) and whether a file is previewed (quarto.ts 76)
optionsOf(r) ==
  [mode |-> IF r.profileGroupIndex # <<>> THEN "profile" ELSE "history",
   copyFile |-> r.copyFile # <<>>,
   file |-> Truthy(r.file)]

\* a command line that gives the options o
ArgvOf(o) ==
  <<"out">>
  \o (IF o.mode = "profile" THEN <<"--profile-group">> ELSE <<>>)
  \o (IF o.file THEN <<"--file", "x">> ELSE <<>>)
  \o (IF o.copyFile THEN <<"--copy-file", "x">> ELSE <<>>)

\* the command lines of the runs: one for each element of OptionSet and one
\* that parseArgs rejects
RunArgvSet == {ArgvOf(o) : o \in OptionSet} \cup {<<"out", "--bogus">>}

\* every command line of at most MaxArgs tokens after OUTPUT_DIR, and the
\* empty one
ArgvSet ==
  {<<>>} \cup
  {<<"out">> \o s : s \in UNION {[1..n -> ArgTokens] : n \in 0..MaxArgs}}

\* no process: the value of stopArg while no stop has been called
NoProcess == [pid |-> 0]

\* an unwrapping that only knows the handle
processOf_HandleOnly(result) ==
  IF "process" \in DOMAIN result THEN result.process ELSE NoProcess

\* 'process' in result ? result.process : result (quarto.ts 195)
processOf(result) ==
  IF "process" \in DOMAIN result THEN result.process ELSE result

\* the rectangles the screencapture preferences may hold
Rects == {"rectA", "rectB"}

-----------------------------------------------------------------------------
InitRun ==
  /\ pc = "checkPermissions"
  /\ opts = [mode |-> "history", copyFile |-> FALSE, file |-> FALSE]
  /\ screenRect = "none"
  /\ items = <<>>
  /\ idx = 0
  /\ sysRect = "rectA"
  /\ workspace = 0
  /\ dirs = {}
  /\ shots = {}
  /\ shotRects = {}
  /\ copies = {}
  /\ tracked = [k \in Positions |-> "none"]
  /\ orphan = [k \in Positions |-> "none"]
  /\ previews = [k \in Positions |-> <<>>]
  /\ timers = {}
  /\ url = ""
  /\ scan = "idle"
  /\ race = [k \in Positions |-> "none"]
  /\ seen = NoneSeen
  /\ elapsed = 0
  /\ stopped = [k \in Positions |-> "no"]
  /\ stopFail = {}
  /\ stopLog = <<>>
  /\ nStart = 0
  /\ nStop = 0
  /\ stopArg = NoProcess
  /\ drain = "none"
  /\ outSeen = FALSE
  /\ staleFired = {}
  /\ failure = ""
  /\ exitCode = <<>>

Init ==
  /\ argv \in RunArgvSet
  /\ InitRun

----------------------------------------------------------------------------
(* main(), before the loop *)

checkPermissions ==
  /\ pc = "checkPermissions"
  /\ \E hasPermissions \in BOOLEAN :
       IF hasPermissions
       THEN /\ pc' = "parseArgs"
            /\ UNCHANGED <<timers, failure, exitCode>>
       ELSE /\ Exit(1)
            /\ UNCHANGED failure
  /\ UNCHANGED <<staleFired, stopArg, outVars, mainVars, fsVars, procVars, previews, scanVars, race,
                 stopVars, countVars>>

parseArgs ==
  /\ pc = "parseArgs"
  /\ LET r == parsedArgs(argv)
     IN IF r.error = ""
        THEN /\ opts' = optionsOf(r)
             /\ pc' = "getLastSelectionRect"
             /\ UNCHANGED <<timers, failure, exitCode>>
        ELSE /\ Fatal("FatalArgument")
             /\ UNCHANGED opts
  /\ UNCHANGED <<staleFired, stopArg, outVars, argv, screenRect, items, idx, fsVars, procVars, previews, scanVars, race,
                 stopVars, countVars>>

getLastSelectionRect ==
  /\ pc = "getLastSelectionRect"
  /\ \/ /\ screenRect' = sysRect
        /\ pc' = IF opts.mode = "profile" THEN "getProfilesFromGroup"
                 ELSE "getGitHistory"
        /\ UNCHANGED <<timers, failure, exitCode>>
     \/ /\ Fatal("SelectionRectFailed")
        /\ UNCHANGED screenRect
  /\ UNCHANGED <<staleFired, stopArg, outVars, argv, opts, items, idx, fsVars, procVars, previews, scanVars,
                 race, stopVars, countVars>>

\* the profile names of the group, in the group's order; an empty or missing
\* group throws
getProfilesFromGroup ==
  /\ pc = "getProfilesFromGroup"
  /\ \/ /\ \E n \in 1..MaxItems : items' = [k \in 1..n |-> k]
        /\ idx' = 1
        /\ pc' = "loop"
        /\ UNCHANGED <<timers, failure, exitCode>>
     \/ /\ Fatal("ProviderFailed")
        /\ UNCHANGED <<items, idx>>
  /\ UNCHANGED <<staleFired, stopArg, outVars, argv, opts, screenRect, fsVars, procVars, previews, scanVars, race,
                 stopVars, countVars>>

\* what `git log` prints, newest first; no output at all splits into one
\* line with an empty hash (0)
gitLog(n) == IF n = 0 THEN <<0>> ELSE [k \in 1..n |-> n + 1 - k]

getGitHistory ==
  /\ pc = "getGitHistory"
  /\ \/ /\ \E n \in 0..MaxItems : items' = Reverse(gitLog(n))
        /\ idx' = 1
        /\ pc' = "loop"
        /\ UNCHANGED <<timers, failure, exitCode>>
     \/ /\ Fatal("ProviderFailed")
        /\ UNCHANGED <<items, idx>>
  /\ UNCHANGED <<staleFired, stopArg, outVars, argv, opts, screenRect, fsVars, procVars, previews, scanVars, race,
                 stopVars, countVars>>

----------------------------------------------------------------------------
(* main(): the for loop (main.ts 99-146) and processItem (main.ts 17-59) *)

\* loop with the test off by one: the last item is never processed
loop_OffByOne ==
  /\ pc = "loop"
  /\ IF idx >= Len(items)
     THEN /\ Exit(0)
          /\ UNCHANGED failure
     ELSE /\ pc' = IF opts.mode = "history" THEN "checkoutCommit" ELSE "ensureDir"
          /\ UNCHANGED <<timers, failure, exitCode>>
  /\ stopFail' = {}
  /\ stopLog' = <<>>
  /\ staleFired' = {}
  /\ UNCHANGED <<stopArg, outVars, mainVars, fsVars, procVars, previews, scanVars, race,
                 stopped, countVars>>

\* loop with a processItem that starts the preview before it makes the
\* item's directory
loop_StartsPreviewFirst ==
  /\ pc = "loop"
  /\ IF idx > Len(items)
     THEN /\ Exit(0)
          /\ UNCHANGED failure
     ELSE /\ pc' = "startQuartoPreview"
          /\ UNCHANGED <<timers, failure, exitCode>>
  /\ stopFail' = {}
  /\ stopLog' = <<>>
  /\ staleFired' = {}
  /\ UNCHANGED <<stopArg, outVars, mainVars, fsVars, procVars, previews, scanVars, race,
                 stopped, countVars>>

\* the loop test `i < items.length`; past the last item main exits with 0
loop ==
  /\ pc = "loop"
  /\ IF idx > Len(items)
     THEN /\ Exit(0)
          /\ UNCHANGED failure
     ELSE /\ pc' = IF opts.mode = "history" THEN "checkoutCommit" ELSE "ensureDir"
          /\ UNCHANGED <<timers, failure, exitCode>>
  /\ stopFail' = {}
  /\ stopLog' = <<>>
  /\ staleFired' = {}
  /\ UNCHANGED <<stopArg, outVars, mainVars, fsVars, procVars, previews, scanVars, race,
                 stopped, countVars>>

\* checkoutCommit that leaves the working tree as it is
checkoutCommit_Skips ==
  /\ pc = "checkoutCommit"
  /\ pc' = "ensureDir"
  /\ UNCHANGED <<staleFired, stopArg, outVars, mainVars, fsVars, procVars, previews, timers, scanVars,
                 race, stopVars, countVars, failure, exitCode>>

\* git checkout <hash>; it fails on the empty hash, and may fail on any
checkoutCommit ==
  /\ pc = "checkoutCommit"
  /\ \/ /\ items[idx] # 0
        /\ workspace' = items[idx]
        /\ pc' = "ensureDir"
        /\ UNCHANGED <<timers, failure, exitCode>>
     \/ /\ Fatal("CheckoutFailed")
        /\ UNCHANGED workspace
  /\ UNCHANGED <<staleFired, stopArg, outVars, mainVars, sysRect, dirs, shots, shotRects, copies, procVars, previews, scanVars,
                 race, stopVars, countVars>>

\* ensureDir that creates nothing
ensureDir_CreatesNothing ==
  /\ pc = "ensureDir"
  /\ pc' = "startQuartoPreview"
  /\ UNCHANGED <<staleFired, stopArg, outVars, mainVars, fsVars, procVars, previews, timers, scanVars,
                 race, stopVars, countVars, failure, exitCode>>

\* ensureDir(itemOutputDir) (main.ts 19-20): mkdir -p of the item's own
\* directory; an error other than "already exists" is thrown
ensureDir ==
  /\ pc = "ensureDir"
  /\ \/ /\ dirs' = dirs \cup {items[idx]}
        /\ pc' = "startQuartoPreview"
        /\ UNCHANGED <<timers, failure, exitCode>>
     \/ /\ Fatal("MkdirFailed")
        /\ UNCHANGED dirs
  /\ UNCHANGED <<staleFired, stopArg, outVars, mainVars, sysRect, workspace, shots, shotRects, copies, procVars, previews,
                 scanVars, race, stopVars, countVars>>

----------------------------------------------------------------------------
(* startQuartoPreview and waitForQuartoServer (quarto.ts 72-186) *)

\* the argument list of `quarto` (quarto.ts 73-83)
\* previewArgs with the profile before the file
previewArgs_ProfileFirst(file, profile) ==
  <<"preview">> \o (IF profile # "" THEN <<"--profile", profile>> ELSE <<>>)
                \o (IF file # "" THEN <<file>> ELSE <<>>)

previewArgs(file, profile) ==
  <<"preview">> \o (IF file # "" THEN <<file>> ELSE <<>>)
                \o (IF profile # "" THEN <<"--profile", profile>> ELSE <<>>)

\* what processItem passes: options.file and, in profile mode, the profile
fileArg == IF opts.file THEN "FILE.qmd" ELSE ""
\* the profile of the first item kept for every item
profileArg_First == IF opts.mode = "profile" THEN ItemName(items[1]) ELSE ""

profileArg == IF opts.mode = "profile" THEN ItemName(items[idx]) ELSE ""

\* timeoutTimer with the delay of the stop's exit wait
timeoutTimer_Short(k) == Timer("startTimeout", k, ExitWaitMs)

\* the timer of timeoutPromise (quarto.ts 114-118)
timeoutTimer(k) == Timer("startTimeout", k, StartTimeoutMs)

\* spawn() and the synchronous head of waitForQuartoServer: the timeout
\* timer is set, logStdout and processStderr start reading.  The launcher
\* may or may not leave the server to a deno descendant.
startQuartoPreview ==
  /\ pc = "startQuartoPreview"
  /\ \/ /\ \E d \in {"none", "alive"} : orphan' = [orphan EXCEPT ![idx] = d]
        /\ tracked' = [tracked EXCEPT ![idx] = "alive"]
        /\ previews' = [previews EXCEPT ![idx] = previewArgs(fileArg, profileArg)]
        /\ timers' = timers \cup {timeoutTimer(idx)}
        /\ url' = ""
        /\ scan' = "reading"
        /\ seen' = NoneSeen
        /\ elapsed' = 0
        /\ race' = [race EXCEPT ![idx] = "pending"]
        /\ nStart' = nStart + 1
        /\ drain' = "reading"
        /\ outSeen' = FALSE
        /\ pc' = "waitForQuartoServer"
        /\ UNCHANGED <<failure, exitCode>>
     \/ /\ Fatal("SpawnFailed")
        /\ UNCHANGED <<procVars, previews, scanVars, race, nStart, outVars>>
  /\ stopArg' = NoProcess
  /\ UNCHANGED <<staleFired, mainVars, fsVars, stopVars, nStop>>

\* settleTimer with no delay at all
settleTimer_NoDelay(k) == Timer("settle", k, 0)

\* the timer of the settle delay (quarto.ts 163)
settleTimer(k) == Timer("settle", k, SettleDelayMs)

\* the url after a chunk (quarto.ts 152-156)
\* urlAfter with every listening line recorded, the latest one kept
urlAfter_Overwrites(u, text) ==
  IF listeningMatch(text) # 0
  THEN UrlOf(text[listeningMatch(text)])
  ELSE u

urlAfter(u, text) ==
  IF listeningMatch(text) # 0 /\ u = ""
  THEN UrlOf(text[listeningMatch(text)])
  ELSE u

\* browserLoaded without the test of the url
browserLoaded_NoUrlTest(u, text) == includesGET(text)

\* browserLoaded counting a request marker only when no listening line
\* follows it in the same chunk
browserLoaded_OrderSensitive(u, text) ==
  /\ u # ""
  /\ \E i \in 1..Len(text) :
       text[i] = "G" /\ \A j \in (i + 1)..Len(text) : ~IsListening(text[j])

\* the test that ends the scan (quarto.ts 159)
browserLoaded(u, text) == includesGET(text) /\ u # ""

\* one reader.read() of processStderr that yields a chunk (quarto.ts 145-168)
processStderrChunk ==
  /\ pc = "waitForQuartoServer"
  /\ scan = "reading"
  /\ seen.n < MaxChunks
  /\ \E text \in ChunkSet :
       /\ url' = urlAfter(url, text)
       /\ seen' = SeenAfter(seen, text, elapsed)
       /\ IF browserLoaded(urlAfter(url, text), text)
          THEN /\ scan' = "settling"
               /\ timers' = timers \cup {settleTimer(idx)}
          ELSE /\ scan' = "reading"
               /\ UNCHANGED timers
  /\ UNCHANGED <<staleFired, stopArg, outVars, pc, mainVars, fsVars, procVars, previews, race, elapsed,
                 stopVars, countVars, failure, exitCode>>

\* processStderrDone returning the url after the loop instead of throwing
processStderrDone_ReturnsUrl ==
  /\ pc = "waitForQuartoServer"
  /\ scan = "reading"
  /\ seen' = [seen EXCEPT !.ended = TRUE]
  /\ scan' = "returned"
  /\ race' = [race EXCEPT ![idx] = "ready"]
  /\ timers' = Abandoned(timers, "startTimeout", idx)
  /\ pc' = "captureScreen"
  /\ UNCHANGED <<staleFired, stopArg, outVars, mainVars, fsVars, procVars, previews, url, elapsed,
                 stopVars, countVars, failure, exitCode>>

\* reader.read() yields done: the loop breaks, processStderr throws, the
\* race rejects and the error runs up to main's catch (quarto.ts 146, 171)
processStderrDone ==
  /\ pc = "waitForQuartoServer"
  /\ scan = "reading"
  /\ seen' = [seen EXCEPT !.ended = TRUE]
  /\ scan' = "thrown"
  /\ race' = [race EXCEPT ![idx] = "ended"]
  /\ Fatal("StreamEndedPrematurely")
  /\ UNCHANGED <<staleFired, stopArg, outVars, mainVars, fsVars, procVars, previews, url, elapsed,
                 stopVars, countVars>>

\* the settle delay is over: processStderr returns the url, the race
\* resolves, startQuartoPreview returns to processItem (quarto.ts 163-167)
settleDone(t) ==
  /\ t.kind = "settle"
  /\ pc = "waitForQuartoServer"
  /\ scan = "settling"
  /\ timers' = Abandoned(timers \ {t}, "startTimeout", idx)
  /\ scan' = "returned"
  /\ race' = [race EXCEPT ![idx] = "ready"]
  /\ pc' = "captureScreen"
  /\ UNCHANGED <<staleFired, stopArg, outVars, mainVars, fsVars, procVars, previews, url, seen, elapsed,
                 stopVars, countVars, failure, exitCode>>

\* timeoutPromise with the rejection caught and logged by processItem, which
\* goes on to the capture
timeoutPromise_Continues(t) ==
  /\ t.kind = "startTimeout"
  /\ timers' = timers \ {t}
  /\ IF race[t.item] = "pending"
     THEN /\ race' = [race EXCEPT ![t.item] = "timeout"]
          /\ failure' = "ReadinessTimeout"
          /\ pc' = "captureScreen"
          /\ UNCHANGED exitCode
     ELSE UNCHANGED <<pc, race, failure, exitCode>>
  /\ UNCHANGED <<staleFired, stopArg, outVars, mainVars, fsVars, procVars, previews, scanVars,
                 stopVars, countVars>>

\* timeoutPromise with a rejection that fails the start whenever it comes
timeoutPromise_AlwaysRejects(t) ==
  /\ t.kind = "startTimeout"
  /\ race' = [race EXCEPT ![t.item] = "timeout"]
  /\ Fatal("ReadinessTimeout")
  /\ UNCHANGED <<staleFired, stopArg, outVars, mainVars, fsVars, procVars, previews, scanVars,
                 stopVars, countVars>>

\* timeoutPromise with a rejection that is dropped once the scan has
\* detected readiness and is in its settle delay
timeoutPromise_DroppedWhileSettling(t) ==
  /\ t.kind = "startTimeout"
  /\ IF race[t.item] = "pending" /\ ~(t.item = idx /\ scan = "settling")
     THEN /\ race' = [race EXCEPT ![t.item] = "timeout"]
          /\ Fatal("ReadinessTimeout")
     ELSE /\ timers' = timers \ {t}
          /\ UNCHANGED <<pc, race, failure, exitCode>>
  /\ UNCHANGED <<staleFired, stopArg, outVars, mainVars, fsVars, procVars, previews, scanVars,
                 stopVars, countVars>>

\* the 60 s timer fires (quarto.ts 114-118).  Promise.race (182-185) takes
\* the rejection only while it is unsettled; a settled race ignores it.
timeoutPromiseStep(t) ==
  /\ t.kind = "startTimeout"
  /\ IF race[t.item] = "pending"
     THEN /\ race' = [race EXCEPT ![t.item] = "timeout"]
          /\ Fatal("ReadinessTimeout")
     ELSE /\ timers' = timers \ {t}
          /\ UNCHANGED <<pc, race, failure, exitCode>>
  /\ UNCHANGED <<stopArg, outVars, mainVars, fsVars, procVars, previews, scanVars,
                 stopVars, countVars>>

timeoutPromise(t) ==
  /\ timeoutPromiseStep(t)
  /\ UNCHANGED staleFired

----------------------------------------------------------------------------
(* processItem, after the start (main.ts 28-59) *)

\* what startQuartoPreview returned to processItem: the process and the url
quartoResult == [process |-> [pid |-> idx], url |-> url]

\* the pid that the running stopQuartoPreview signals and waits for
stopPid == processOf(stopArg).pid

\* a capture that reads the preferences anew
captureRect_Requeried == sysRect

\* the rectangle processItem hands to captureScreen: main's screenRect
captureRect == screenRect

\* captureScreen with a failed capture only logged: processItem goes on to
\* the stop and the run to the next item
captureScreen_LogsFailure ==
  /\ pc = "captureScreen"
  /\ \E captureSuccess \in BOOLEAN :
       /\ shots' = IF captureSuccess THEN shots \cup {items[idx]} ELSE shots
       /\ failure' = IF captureSuccess THEN failure ELSE "CaptureFailed"
  /\ shotRects' = shotRects \cup {captureRect}
  /\ pc' = "stopQuartoPreview"
  /\ stopped' = [stopped EXCEPT ![idx] = "called"]
  /\ stopFail' = {}
  /\ stopLog' = <<>>
  /\ nStop' = nStop + 1
  /\ seen' = NoneSeen
  /\ elapsed' = 0
  /\ outSeen' = FALSE
  /\ stopArg' = quartoResult
  /\ UNCHANGED <<staleFired, drain, mainVars, sysRect, workspace, dirs, copies, procVars,
                 previews, timers, url, scan, race, nStart, exitCode>>

\* captureScreen returns true (the file exists and is not empty) or false;
\* on true processItem goes on to call stopQuartoPreview, on false it throws
\* (main.ts 31-42); `result` is what the caller hands to stopQuartoPreview
captureAndStop(result) ==
  /\ pc = "captureScreen"
  /\ \E captureSuccess \in BOOLEAN :
       IF captureSuccess
       THEN /\ shots' = shots \cup {items[idx]}
            /\ pc' = "stopQuartoPreview"
            /\ stopped' = [stopped EXCEPT ![idx] = "called"]
            /\ stopFail' = {}
            /\ stopLog' = <<>>
            /\ nStop' = nStop + 1
            /\ stopArg' = result
            /\ UNCHANGED <<timers, failure, exitCode>>
       ELSE /\ Fatal("CaptureFailed")
            /\ UNCHANGED <<shots, stopVars, nStop, stopArg>>
  /\ shotRects' = shotRects \cup {captureRect}
  /\ seen' = NoneSeen
  /\ elapsed' = 0
  /\ outSeen' = FALSE
  /\ UNCHANGED <<staleFired, drain, mainVars, sysRect, workspace, dirs, copies, procVars,
                 previews, url, scan, race, nStart>>

\* processItem: the capture, then stopQuartoPreview(quartoResult)
captureScreen == captureAndStop(quartoResult)

\* the capture of the earlier main, which keeps the process itself and calls
\* stopQuartoPreview(quartoProcess)
captureScreenOldApi == captureAndStop(quartoResult.process)

\* processItem after stopQuartoPreview has returned (main.ts 44-58): the
\* copy if one was asked for, else the item is complete and the loop advances
afterStop ==
  /\ stopped' = [stopped EXCEPT ![idx] = "returned"]
  /\ url' = ""
  /\ scan' = "idle"
  /\ stopArg' = NoProcess
  /\ IF opts.copyFile
     THEN /\ pc' = "copyFile"
          /\ UNCHANGED idx
     ELSE /\ pc' = "loop"
          /\ idx' = idx + 1

\* copyFile with a failed copy only logged: the loop advances
copyFile_LogsFailure ==
  /\ pc = "copyFile"
  /\ \E copySuccess \in BOOLEAN :
       /\ copies' = IF copySuccess THEN copies \cup {items[idx]} ELSE copies
       /\ failure' = IF copySuccess THEN failure ELSE "CopyFailed"
  /\ idx' = idx + 1
  /\ pc' = "loop"
  /\ UNCHANGED <<staleFired, stopArg, outVars, argv, opts, screenRect, items, sysRect, workspace, dirs, shots, shotRects, procVars, previews,
                 timers, scanVars, race, stopVars, countVars, exitCode>>

\* copyFile (main.ts 45-56): it returns true or false; on false processItem
\* throws, on true the item is complete and the loop advances
copyFile ==
  /\ pc = "copyFile"
  /\ \E copySuccess \in BOOLEAN :
       IF copySuccess
       THEN /\ copies' = copies \cup {items[idx]}
            /\ idx' = idx + 1
            /\ pc' = "loop"
            /\ UNCHANGED <<timers, failure, exitCode>>
       ELSE /\ Fatal("CopyFailed")
            /\ UNCHANGED <<copies, idx>>
  /\ UNCHANGED <<staleFired, stopArg, outVars, argv, opts, screenRect, items, sysRect, workspace, dirs, shots, shotRects, procVars, previews,
                 scanVars, race, stopVars, countVars>>

----------------------------------------------------------------------------
(* stopQuartoPreview (quarto.ts 192-270) *)

\* stopSigterm with no catch around the kill: the error of a kill on a
\* terminated child leaves stopQuartoPreview and reaches main
stopSigterm_Throws ==
  /\ pc = "stopQuartoPreview"
  /\ stopLog' = Append(stopLog, "SIGTERM")
  /\ IF tracked[stopPid] = "dead"
     THEN /\ stopFail' = stopFail \cup {"SIGTERM"}
          /\ Fatal("StopFailed")
     ELSE /\ timers' = timers \cup {Timer("exitWait", idx, ExitWaitMs)}
          /\ pc' = "stop_wait"
          /\ UNCHANGED <<stopFail, failure, exitCode>>
  /\ UNCHANGED <<staleFired, stopArg, outVars, mainVars, fsVars, procVars, previews, scanVars, race,
                 stopped, countVars>>

\* Step 1, process.kill("SIGTERM") (quarto.ts 200-206): kill throws when the
\* child has already terminated, and the catch goes on to SIGKILL; else the
\* 2 s timer is set and the race with process.status is awaited
stopSigterm ==
  /\ pc = "stopQuartoPreview"
  /\ stopLog' = Append(stopLog, "SIGTERM")
  /\ IF tracked[stopPid] = "dead"
     THEN /\ stopFail' = stopFail \cup {"SIGTERM"}
          /\ pc' = "stop_kill"
          /\ UNCHANGED timers
     ELSE /\ timers' = timers \cup {Timer("exitWait", idx, ExitWaitMs)}
          /\ pc' = "stop_wait"
          /\ UNCHANGED stopFail
  /\ UNCHANGED <<staleFired, stopArg, outVars, mainVars, fsVars, procVars, previews, scanVars, race,
                 stopped, countVars, failure, exitCode>>

\* process.status of the process being stopped has resolved and the stop
\* awaiting it has not run yet
statusResolved == pc = "stop_wait" /\ tracked[stopPid] = "dead"

\* process.status resolves first (quarto.ts 208-209)
stopStatus ==
  /\ statusResolved
  /\ pc' = "stop_pkill"
  /\ timers' = Abandoned(timers, "exitWait", idx)
  /\ UNCHANGED <<staleFired, stopArg, outVars, mainVars, fsVars, procVars, previews, scanVars, race,
                 stopVars, countVars, failure, exitCode>>

\* exitWaitTimeout with a rejection that the wait does not listen to: the
\* stop goes on waiting for process.status
exitWaitTimeout_Ignored(t) ==
  /\ t.kind = "exitWait"
  /\ timers' = timers \ {t}
  /\ UNCHANGED <<staleFired, stopArg, outVars, pc, mainVars, fsVars, procVars, previews,
                 scanVars, race, stopVars, countVars, failure, exitCode>>

\* exitWaitTimeout with a timed-out wait going on to Step 2 with no SIGKILL
exitWaitTimeout_GivesUp(t) ==
  /\ t.kind = "exitWait"
  /\ timers' = timers \ {t}
  /\ IF pc = "stop_wait" /\ idx = t.item
     THEN /\ stopFail' = stopFail \cup {"wait"}
          /\ pc' = "stop_pkill"
     ELSE UNCHANGED <<pc, stopFail>>
  /\ UNCHANGED <<staleFired, stopArg, outVars, mainVars, fsVars, procVars, previews, scanVars, race,
                 stopped, stopLog, countVars, failure, exitCode>>

\* the 2 s timer with a rejection that reaches whichever stop is waiting
exitWaitTimeoutStep_AnyStop(t) ==
  /\ t.kind = "exitWait"
  /\ timers' = timers \ {t}
  /\ IF pc = "stop_wait"
     THEN /\ stopFail' = stopFail \cup {"wait"}
          /\ pc' = "stop_kill"
     ELSE UNCHANGED <<pc, stopFail>>
  /\ UNCHANGED <<stopArg, outVars, mainVars, fsVars, procVars, previews, scanVars, race,
                 stopped, stopLog, countVars, failure, exitCode>>

\* the 2 s timer fires (quarto.ts 204-206): while the race of this stop is
\* unsettled it rejects and the catch runs, later it is ignored
exitWaitTimeoutStep(t) ==
  /\ t.kind = "exitWait"
  /\ timers' = timers \ {t}
  /\ IF pc = "stop_wait" /\ idx = t.item
     THEN /\ stopFail' = stopFail \cup {"wait"}
          /\ pc' = "stop_kill"
     ELSE UNCHANGED <<pc, stopFail>>
  /\ UNCHANGED <<stopArg, outVars, mainVars, fsVars, procVars, previews, scanVars, race,
                 stopped, stopLog, countVars, failure, exitCode>>

exitWaitTimeout(t) ==
  /\ exitWaitTimeoutStep(t)
  /\ UNCHANGED staleFired

\* stopSigkill with the catch of Step 1 returning from stopQuartoPreview
stopSigkill_Returns ==
  /\ pc = "stop_kill"
  /\ stopLog' = Append(stopLog, "SIGKILL")
  /\ tracked' = [tracked EXCEPT ![stopPid] = "dead"]
  /\ afterStop
  /\ UNCHANGED <<staleFired, outVars, argv, opts, screenRect, items, fsVars, orphan, previews, timers, seen, elapsed,
                 race, stopFail, countVars, failure, exitCode>>

\* stopSigkill with the catch of Step 1 only logging: no SIGKILL is sent
stopSigkill_LogsOnly ==
  /\ pc = "stop_kill"
  /\ pc' = "stop_pkill"
  /\ UNCHANGED <<staleFired, stopArg, outVars, mainVars, fsVars, procVars, previews, timers, scanVars, race,
                 stopVars, countVars, failure, exitCode>>

\* the catch of Step 1: process.kill("SIGKILL"), its own failure ignored
\* (quarto.ts 210-219)
stopSigkill ==
  /\ pc = "stop_kill"
  /\ stopLog' = Append(stopLog, "SIGKILL")
  /\ IF tracked[stopPid] = "dead"
     THEN /\ stopFail' = stopFail \cup {"SIGKILL"}
          /\ UNCHANGED tracked
     ELSE /\ tracked' = [tracked EXCEPT ![stopPid] = "dead"]
          /\ UNCHANGED stopFail
  /\ pc' = "stop_pkill"
  /\ UNCHANGED <<staleFired, stopArg, outVars, mainVars, fsVars, orphan, previews, timers, scanVars, race,
                 stopped, countVars, failure, exitCode>>

\* Step 2, pkill -f (quarto.ts 223-237): the command ran (whatever it
\* matched) and the 500 ms pause follows, or it could not be run
stopPkill ==
  /\ pc = "stop_pkill"
  /\ stopLog' = Append(stopLog, "pkill")
  /\ \E ran \in BOOLEAN :
       IF ran
       THEN /\ timers' = timers \cup {Timer("sweepPause", idx, SweepPauseMs)}
            /\ pc' = "stop_pause"
            /\ UNCHANGED stopFail
       ELSE /\ stopFail' = stopFail \cup {"sweep"}
            /\ pc' = "stop_pgrep"
            /\ UNCHANGED timers
  /\ UNCHANGED <<staleFired, stopArg, outVars, mainVars, fsVars, procVars, previews, scanVars, race,
                 stopped, countVars, failure, exitCode>>

\* the 500 ms pause is over (quarto.ts 233)
sweepPauseDone(t) ==
  /\ t.kind = "sweepPause"
  /\ pc = "stop_pause"
  /\ timers' = timers \ {t}
  /\ pc' = "stop_pgrep"
  /\ UNCHANGED <<staleFired, stopArg, outVars, mainVars, fsVars, procVars, previews, scanVars, race,
                 stopVars, countVars, failure, exitCode>>

\* the processes pgrep -f "deno.*quarto\.ts preview" lists
remainingPids == {k \in Positions : orphan[k] = "alive"}

\* stopPgrep that only reports what it lists: no forced kill follows
stopPgrep_ReportsOnly ==
  /\ pc = "stop_pgrep"
  /\ stopLog' = Append(stopLog, "pgrep")
  /\ \E ran \in BOOLEAN :
       stopFail' = IF ran THEN stopFail ELSE stopFail \cup {"query"}
  /\ afterStop
  /\ UNCHANGED <<staleFired, outVars, argv, opts, screenRect, items, fsVars, procVars, previews, timers, seen,
                 elapsed, race, countVars, failure, exitCode>>

\* stopPgrep without the catch of Step 3: a pgrep that cannot be run throws
\* out of stopQuartoPreview and up to main
stopPgrep_Rethrows ==
  /\ pc = "stop_pgrep"
  /\ stopLog' = Append(stopLog, "pgrep")
  /\ \E ran \in BOOLEAN :
       IF ran
       THEN IF remainingPids # {}
            THEN /\ pc' = "stop_force"
                 /\ UNCHANGED <<idx, url, scan, stopArg, stopped, stopFail, timers, failure, exitCode>>
            ELSE /\ afterStop
                 /\ UNCHANGED <<stopFail, timers, failure, exitCode>>
       ELSE /\ stopFail' = stopFail \cup {"query"}
            /\ Fatal("StopFailed")
            /\ UNCHANGED <<idx, url, scan, stopArg, stopped>>
  /\ UNCHANGED <<staleFired, outVars, argv, opts, screenRect, items, fsVars, procVars, previews, seen,
                 elapsed, race, countVars>>

\* Step 3, pgrep -f (quarto.ts 240-250): if it lists a process the forced
\* pkill follows, if it lists none or could not be run the stop returns
stopPgrep ==
  /\ pc = "stop_pgrep"
  /\ stopLog' = Append(stopLog, "pgrep")
  /\ \E ran \in BOOLEAN :
       IF ran /\ remainingPids # {}
       THEN /\ pc' = "stop_force"
            /\ UNCHANGED <<idx, url, scan, stopArg, stopped, stopFail>>
       ELSE /\ stopFail' = IF ran THEN stopFail ELSE stopFail \cup {"query"}
            /\ afterStop
  /\ UNCHANGED <<staleFired, outVars, argv, opts, screenRect, items, fsVars, procVars, previews, timers, seen,
                 elapsed, race, countVars, failure, exitCode>>

\* pkill -9 -f (quarto.ts 254-260): every listed process is killed, or the
\* command could not be run; either way the stop returns
stopForceKill ==
  /\ pc = "stop_force"
  /\ stopLog' = Append(stopLog, "pkill -9")
  /\ \E ran \in BOOLEAN :
       IF ran
       THEN /\ orphan' = [k \in Positions |-> "none"]
            /\ UNCHANGED stopFail
       ELSE /\ stopFail' = stopFail \cup {"force"}
            /\ UNCHANGED orphan
  /\ afterStop
  /\ UNCHANGED <<staleFired, outVars, argv, opts, screenRect, items, fsVars, tracked, previews, timers, seen,
                 elapsed, race, countVars, failure, exitCode>>

----------------------------------------------------------------------------
(* The environment *)

\* the spawned process exits (on a signal or by itself)
trackedExits(k) ==
  /\ Running
  /\ tracked[k] = "alive"
  /\ tracked' = [tracked EXCEPT ![k] = "dead"]
  /\ UNCHANGED <<staleFired, stopArg, outVars, pc, mainVars, fsVars, orphan, previews, timers, scanVars,
                 race, stopVars, countVars, failure, exitCode>>

\* the deno descendant exits (on a signal or by itself)
orphanExits(k) ==
  /\ Running
  /\ orphan[k] = "alive"
  /\ orphan' = [orphan EXCEPT ![k] = "none"]
  /\ UNCHANGED <<staleFired, stopArg, outVars, pc, mainVars, fsVars, tracked, previews, timers, scanVars,
                 race, stopVars, countVars, failure, exitCode>>

\* how long the environment may let pass now: nothing while the loop has a
\* resolved promise to run; else up to the next awaited deadline, or up to
\* one of the instants of EnvDelays while a start is waiting
TickChoices ==
  IF LiveTimers = {} \/ Due \cap LiveTimers # {} \/ statusResolved
  THEN {}
  ELSE {MinRem} \cup
       {e - elapsed : e \in {x \in EnvDelays :
                               /\ pc = "waitForQuartoServer"
                               /\ x > elapsed
                               /\ x - elapsed < MinRem}}

Tick(d) ==
  /\ Running
  /\ d \in TickChoices
  /\ timers' = {IF Live(t) THEN [t EXCEPT !.rem = t.rem - d] ELSE t : t \in timers}
  /\ elapsed' = IF pc = "waitForQuartoServer" THEN elapsed + d ELSE elapsed
  /\ UNCHANGED <<staleFired, stopArg, outVars, pc, mainVars, fsVars, procVars, previews, url, scan, seen,
                 race, stopVars, countVars, failure, exitCode>>

----------------------------------------------------------------------------
Next ==
  \/ checkPermissions
  \/ parseArgs
  \/ getLastSelectionRect
  \/ getProfilesFromGroup
  \/ getGitHistory
  \/ loop
  \/ checkoutCommit
  \/ ensureDir
  \/ startQuartoPreview
  \/ processStderrChunk
  \/ processStderrDone
  \/ \E t \in Due : settleDone(t)
  \/ \E t \in Due : timeoutPromise(t)
  \/ captureScreen
  \/ stopSigterm
  \/ stopStatus
  \/ \E t \in Due : exitWaitTimeout(t)
  \/ stopSigkill
  \/ stopPkill
  \/ \E t \in Due : sweepPauseDone(t)
  \/ stopPgrep
  \/ stopForceKill
  \/ copyFile
  \/ \E k \in Positions : trackedExits(k)
  \/ \E k \in Positions : orphanExits(k)
  \/ \E d \in TickChoices : Tick(d)

Spec == Init /\ [][Next]_vars

\* The run while the user may select another screen region: the preferences
\* change at any moment between the query at startup and the exit (a change
\* before the query is a run that starts from the other rectangle).
selectionChanges ==
  /\ Running
  /\ screenRect # "none"
  /\ \E r \in Rects \ {sysRect} : sysRect' = r
  /\ UNCHANGED <<staleFired, stopArg, outVars, pc, mainVars, workspace, dirs, shots, shotRects, copies,
                 procVars, previews, timers, scanVars, race, stopVars,
                 countVars, failure, exitCode>>

RectNext == Next \/ selectionChanges

\* the runs of both modes that preview the whole project
RectInit ==
  /\ argv \in {ArgvOf(o) : o \in {x \in OptionSet : ~x.file}}
  /\ InitRun

RectSpec == RectInit /\ [][RectNext]_vars

\* logStdout (quarto.ts 121-137), started and not awaited by
\* waitForQuartoServer: it reads the stdout of its preview until the stream
\* ends or a read fails, whatever the run is doing meanwhile.

\* the chunks of stdout: nothing of interest, a request marker, a listening
\* line, both
StdoutChunkSet == {<<>>, <<"G">>, <<"L1">>, <<"L1", "G">>}

\* whether a chunk of stdout holds what would end the scan of stderr
carriesReady(text) == browserLoaded(urlAfter("", text), text)

\* a read of stdout whose text is scanned as the text of stderr is
logStdoutChunk_Scans ==
  /\ Running
  /\ drain = "reading"
  /\ \E text \in StdoutChunkSet :
       /\ outSeen' = (outSeen \/ (pc = "waitForQuartoServer"
                                    /\ carriesReady(text)))
       /\ IF pc = "waitForQuartoServer" /\ scan = "reading"
          THEN /\ url' = urlAfter(url, text)
               /\ IF browserLoaded(urlAfter(url, text), text)
                  THEN /\ scan' = "settling"
                       /\ timers' = timers \cup {settleTimer(idx)}
                  ELSE UNCHANGED <<scan, timers>>
          ELSE UNCHANGED <<url, scan, timers>>
  /\ UNCHANGED <<staleFired, stopArg, pc, mainVars, fsVars, procVars, previews, seen, elapsed,
                 race, stopVars, countVars, drain, failure, exitCode>>

\* one reader.read() of logStdout that yields a chunk: the text is decoded
\* and logged (quarto.ts 126-130)
logStdoutChunk ==
  /\ Running
  /\ drain = "reading"
  /\ \E text \in StdoutChunkSet :
       outSeen' = (outSeen \/ (pc = "waitForQuartoServer"
                                 /\ carriesReady(text)))
  /\ UNCHANGED <<staleFired, stopArg, pc, mainVars, fsVars, procVars, previews, timers, scanVars,
                 race, stopVars, countVars, drain, failure, exitCode>>

\* reader.read() yields done: the loop breaks and the lock is released
\* (quarto.ts 127, 134-136)
logStdoutDone ==
  /\ Running
  /\ drain = "reading"
  /\ drain' = "released"
  /\ UNCHANGED <<staleFired, stopArg, pc, mainVars, fsVars, procVars, previews, timers, scanVars,
                 race, stopVars, countVars, outSeen, failure, exitCode>>

\* a failed read of stdout that nothing catches: the promise of logStdout
\* rejects unhandled and the runtime ends the process
logStdoutError_Rethrows ==
  /\ Running
  /\ drain = "reading"
  /\ drain' = "released"
  /\ Fatal("UnhandledRejection")
  /\ UNCHANGED <<staleFired, stopArg, mainVars, fsVars, procVars, previews, scanVars,
                 race, stopVars, countVars, outSeen>>

\* reader.read() rejects: the catch logs the error and the lock is released
\* (quarto.ts 132-136)
logStdoutError ==
  /\ Running
  /\ drain = "reading"
  /\ drain' = "released"
  /\ UNCHANGED <<staleFired, stopArg, pc, mainVars, fsVars, procVars, previews, timers, scanVars,
                 race, stopVars, countVars, outSeen, failure, exitCode>>

\* the steps of a run over the history that copies nothing
HistoryNext ==
  \/ checkPermissions
  \/ parseArgs
  \/ getLastSelectionRect
  \/ getGitHistory
  \/ loop
  \/ checkoutCommit
  \/ ensureDir
  \/ startQuartoPreview
  \/ processStderrChunk
  \/ processStderrDone
  \/ \E t \in Due : settleDone(t)
  \/ \E t \in Due : timeoutPromise(t)
  \/ captureScreen
  \/ stopSigterm
  \/ stopStatus
  \/ \E t \in Due : exitWaitTimeout(t)
  \/ stopSigkill
  \/ stopPkill
  \/ \E t \in Due : sweepPauseDone(t)
  \/ stopPgrep
  \/ stopForceKill
  \/ \E k \in Positions : trackedExits(k)
  \/ \E k \in Positions : orphanExits(k)
  \/ \E d \in TickChoices : Tick(d)

OutNext ==
  \/ HistoryNext
  \/ logStdoutChunk
  \/ logStdoutDone
  \/ logStdoutError

\* the runs over the history that preview the whole project and copy nothing
OutInit ==
  /\ argv = <<"out">>
  /\ InitRun

OutSpec == OutInit /\ [][OutNext]_vars

\* The run with both callers of stopQuartoPreview: the processItem of today,
\* which passes the handle, and the earlier main, which passes the process.
ShapeNext == Next \/ captureScreenOldApi

ShapeSpec == RectInit /\ [][ShapeNext]_vars

\* The run over the history under the scheduling of the event loop: a step
\* of stopQuartoPreview that can run does run (the commands it awaits
\* return), time passes and a timer that is due fires.  Nothing is assumed
\* of the processes: they exit or they do not.
StopFairness ==
  /\ WF_vars(stopSigterm)
  /\ WF_vars(stopStatus)
  /\ WF_vars(\E t \in Due : exitWaitTimeout(t))
  /\ WF_vars(stopSigkill)
  /\ WF_vars(stopPkill)
  /\ WF_vars(\E t \in Due : sweepPauseDone(t))
  /\ WF_vars(stopPgrep)
  /\ WF_vars(stopForceKill)
  /\ WF_vars(\E d \in TickChoices : Tick(d))

StopSpec == OutInit /\ [][HistoryNext]_vars /\ StopFairness

\* The runs over the history with the firings of the timers observed: a
\* firing of a timer that an earlier item left behind is put on record.
timeoutPromiseObserved(t) ==
  /\ timeoutPromiseStep(t)
  /\ staleFired' = FiredAfter(t)

exitWaitTimeoutObserved(t) ==
  /\ exitWaitTimeoutStep(t)
  /\ staleFired' = FiredAfter(t)

StaleNext ==
  \/ checkPermissions
  \/ parseArgs
  \/ getLastSelectionRect
  \/ getGitHistory
  \/ loop
  \/ checkoutCommit
  \/ ensureDir
  \/ startQuartoPreview
  \/ processStderrChunk
  \/ processStderrDone
  \/ \E t \in Due : settleDone(t)
  \/ \E t \in Due : timeoutPromiseObserved(t)
  \/ captureScreen
  \/ stopSigterm
  \/ stopStatus
  \/ \E t \in Due : exitWaitTimeoutObserved(t)
  \/ stopSigkill
  \/ stopPkill
  \/ \E t \in Due : sweepPauseDone(t)
  \/ stopPgrep
  \/ stopForceKill
  \/ \E k \in Positions : trackedExits(k)
  \/ \E k \in Positions : orphanExits(k)
  \/ \E d \in TickChoices : Tick(d)

StaleSpec == OutInit /\ [][StaleNext]_vars

\* The start of main() on every command line of ArgvSet: the permission
\* check, parseArgs and the query of the screen region.
ArgsInit ==
  /\ argv \in ArgvSet
  /\ InitRun

ArgsNext ==
  \/ checkPermissions
  \/ parseArgs
  \/ getLastSelectionRect

ArgsSpec == ArgsInit /\ [][ArgsNext]_vars

----------------------------------------------------------------------------
(* The claims *)

\* C1: when captureScreen returns false for an item, stopQuartoPreview has
\* been called for that item's preview by the time the fatal error has run
\* up to main and the run has aborted.
C1_StopAttemptedOnCaptureFailure ==
  failure = "CaptureFailed" => stopped[idx] # "no"

\* C2: at every point of a run at most one spawned preview process is
\* alive, it is the one of the item being processed, and whenever
\* startQuartoPreview is about to be called the processes spawned for all
\* earlier items have exited.
C2_OnePreviewAtATime ==
  /\ Cardinality({k \in Positions : tracked[k] = "alive"}) <= 1
  /\ \A k \in Positions : tracked[k] = "alive" => k = idx
  /\ pc = "startQuartoPreview" => \A k \in Positions : tracked[k] # "alive"

\* C2 witness: the second item's preview is alive, the first item's is dead
C2_Witness ==
  /\ idx = 2
  /\ tracked[2] = "alive"
  /\ tracked[1] = "dead"

\* C3: a run over N items never has more than one start call unresolved,
\* never starts more previews than items, stops each preview only after
\* starting it, and when it completes (exit code 0) it has started exactly
\* N previews and stopped exactly N previews.
C3_StartsAndStops ==
  /\ Cardinality({k \in Positions : race[k] = "pending"}) <= 1
  /\ nStop <= nStart
  /\ nStart <= nStop + 1
  /\ nStart <= Len(items)
  /\ exitCode = <<0>> =>
       /\ nStart = Len(items)
       /\ nStop = Len(items)
       /\ \A k \in 1..Len(items) : race[k] = "ready" /\ stopped[k] = "returned"

\* C3 witness: a run over at least two items has completed
C3_Witness ==
  /\ exitCode = <<0>>
  /\ Len(items) >= 2
  /\ nStart = Len(items)
  /\ nStop = Len(items)

\* C4: when the start of an item fails with the readiness timeout or with
\* the prematurely ended stderr stream, the process spawned for that item is
\* no longer alive when the run has ended.
C4_StartFailureCleansUp ==
  failure \in {"ReadinessTimeout", "StreamEndedPrematurely"} =>
    tracked[idx] # "alive"

\* C5: once stopQuartoPreview has returned for an item, neither the process
\* spawned for that item nor a deno descendant running its preview is alive.
C5_NoSurvivorAfterStop ==
  \A k \in Positions :
    stopped[k] = "returned" => tracked[k] # "alive" /\ orphan[k] # "alive"

\* C6: stopQuartoPreview never throws to its caller: whatever steps of it
\* failed, no error of the stop reaches main, and a run that ends while the
\* failed steps of a stop are on record ends because of the copy that
\* followed the stop's return.
C6_StopNeverFails ==
  /\ failure # "StopFailed"
  /\ \A k \in Positions : stopped[k] \in {"no", "called", "returned"}
  /\ stopFail # {} /\ ~Running => failure = "CopyFailed"
  /\ stopFail # {} /\ pc = "copyFile" => stopped[idx] = "returned"
  /\ stopFail # {} /\ pc = "loop" => stopped[idx - 1] = "returned"

\* C6 witness: a stop in which four steps failed has returned and
\* processItem has gone on
C6_Witness ==
  /\ Running
  /\ pc \in {"copyFile", "loop"}
  /\ Cardinality(stopFail) >= 4

\* C7: while a start is waiting and when it has just returned, the scan has
\* ended (is in its settle delay or has returned) only if a url is recorded,
\* stderr has carried a listening line and has carried a request marker with
\* or after it; a start that has returned has returned with that url; and
\* as long as no request marker has come the scan has not ended, listening
\* line or not.
C7_ReadyNeedsBothSignals ==
  pc \in {"waitForQuartoServer", "captureScreen"} =>
    /\ scan \in {"settling", "returned"} =>
         url # "" /\ seen.listening /\ seen.markerAfter
    /\ pc = "captureScreen" =>
         race[idx] = "ready" /\ scan = "returned" /\ url # ""
    /\ ~seen.marker => scan = "reading"

\* C7 witness: a start has returned after two chunks of stderr
C7_Witness ==
  /\ pc = "captureScreen"
  /\ race[idx] = "ready"
  /\ seen.n >= 2
  /\ seen.listening
  /\ seen.markerAfter

\* C8: once the scan has read the end of stderr the start has failed with
\* the stream-ended error and the run has ended with it: no state has the
\* stream ended and the start still waiting.
C8_StreamEndFails ==
  seen.ended =>
    /\ race[idx] = "ended"
    /\ failure = "StreamEndedPrematurely"
    /\ exitCode = <<1>>
    /\ scan = "thrown"

\* C8 witness: stderr ended after a listening line and with no request marker
C8_Witness ==
  /\ seen.ended
  /\ seen.listening
  /\ ~seen.marker
  /\ failure = "StreamEndedPrematurely"

\* C9: a start fails with the timeout only when exactly 60000 ms have passed
\* since its timer was set; no start is still waiting later than that, and
\* at that instant the timer is due.
C9_TimeoutAtBoundary ==
  /\ \A k \in Positions : race[k] = "timeout" => elapsed = StartTimeoutMs
  /\ pc = "waitForQuartoServer" =>
       /\ elapsed <= StartTimeoutMs
       /\ elapsed = StartTimeoutMs => Timer("startTimeout", idx, 0) \in timers

\* C9 witness: stderr stayed open and silent and the start timed out at 60 s
C9_Witness ==
  /\ \E k \in Positions : race[k] = "timeout"
  /\ seen.n = 0
  /\ ~seen.ended
  /\ elapsed = StartTimeoutMs
  /\ failure = "ReadinessTimeout"

\* C10: the outcome of the race of a start, once there is one, never
\* changes; a start whose race was lost to the timer has failed and the run
\* has ended with the timeout error; the timeout error only ever comes from
\* the start whose race the timer won.
C10_FirstOutcomeWins ==
  /\ [](\A k \in Positions :
          race[k] = "timeout" =>
            failure = "ReadinessTimeout" /\ exitCode = <<1>> /\ k = idx)
  /\ [](failure = "ReadinessTimeout" => race[idx] = "timeout")
  /\ [][\A k \in Positions :
          race[k] \in {"ready", "timeout", "ended"} => race'[k] = race[k]]_vars

\* C10 witness: the timer fired during the settle delay, after readiness had
\* been detected, and the start failed
C10_Witness ==
  /\ \E k \in Positions : race[k] = "timeout"
  /\ scan = "settling"
  /\ seen.markerAfter
  /\ failure = "ReadinessTimeout"

\* C11: when a start has returned, it has returned a url, the one of the
\* first listening line of stderr; at least the settle delay (500 ms) has
\* passed since the request marker that followed the listening line was
\* read; and if that marker was read more than the settle delay before the
\* 60 s of the timeout, in particular at once, less than the timeout has passed.
C11_ReadyAfterSettleDelay ==
  pc = "captureScreen" =>
    /\ race[idx] = "ready"
    /\ seen.first # ""
    /\ url = UrlOf(seen.first)
    /\ seen.at >= 0
    /\ elapsed >= seen.at + SettleDelayMs
    /\ seen.at + SettleDelayMs < StartTimeoutMs => elapsed < StartTimeoutMs

\* C11 witness: the listening line and then the request marker came at once,
\* and the start returned that line's url 500 ms later
C11_Witness ==
  /\ pc = "captureScreen"
  /\ race[idx] = "ready"
  /\ seen.first = "L1"
  /\ url = "http://host1"
  /\ seen.at = 0
  /\ elapsed = SettleDelayMs

\* C12: whatever stopQuartoPreview has issued so far begins with the SIGTERM
\* to the tracked process; the pattern sweep (pkill) and the verification
\* query (pgrep) come after it, the query after the sweep; and a stop that
\* has returned has issued the sweep and the query, whether Step 1 ended
\* with a clean exit, with the wait timing out or with a signal error.
C12_StopOrder ==
  /\ stopLog # <<>> => stopLog[1] = "SIGTERM"
  /\ \A i \in 1..Len(stopLog) :
       stopLog[i] \in {"pkill", "pgrep", "pkill -9"} =>
         \E j \in 1..(i - 1) : stopLog[j] = "SIGTERM"
  /\ \A i \in 1..Len(stopLog) :
       stopLog[i] = "pgrep" => \E j \in 1..(i - 1) : stopLog[j] = "pkill"
  /\ pc \in {"stop_pause", "stop_pgrep", "stop_force"} =>
       \E i \in 1..Len(stopLog) : stopLog[i] = "pkill"
  /\ /\ stopLog # <<>>
     /\ pc \notin {"stop_wait", "stop_kill", "stop_pkill", "stop_pause",
                   "stop_pgrep", "stop_force"}
     => /\ \E i \in 1..Len(stopLog) : stopLog[i] = "pkill"
        /\ \E i \in 1..Len(stopLog) : stopLog[i] = "pgrep"

\* C12 witness: a stop whose wait timed out has returned after the SIGKILL,
\* the sweep and the query
C12_Witness ==
  /\ pc \in {"copyFile", "loop"}
  /\ "wait" \in stopFail
  /\ stopLog = <<"SIGTERM", "SIGKILL", "pkill", "pgrep">>

\* C13: a SIGKILL is only ever the second thing a stop issues, after its
\* SIGTERM.  While the stop waits for the exit the 2 s timer is pending; the
\* wait is left for the SIGKILL only when the full 2 s have passed, and it is
\* left for Step 2 when the process has exited before that.  A stop whose
\* wait timed out has issued the SIGKILL before Step 2, and the process it
\* signalled is dead; a stop whose process exited within the wait never
\* issues a SIGKILL.
C13_Escalation ==
  /\ [](\A i \in 1..Len(stopLog) :
          stopLog[i] = "SIGKILL" => i = 2 /\ stopLog[1] = "SIGTERM")
  /\ [](pc = "stop_wait" =>
          /\ stopLog = <<"SIGTERM">>
          /\ \E t \in timers :
               t.kind = "exitWait" /\ t.item = idx /\ t.rem <= ExitWaitMs)
  /\ []("wait" \in stopFail /\ pc \in {"stop_pkill", "stop_pause", "stop_pgrep", "stop_force"} =>
          /\ Len(stopLog) >= 2
          /\ stopLog[2] = "SIGKILL"
          /\ tracked[idx] = "dead")
  /\ [](stopLog # <<>> /\ pc # "stop_wait" /\ stopFail \cap {"SIGTERM", "wait"} = {} =>
          \A i \in 1..Len(stopLog) : stopLog[i] # "SIGKILL")
  /\ [][pc = "stop_wait" /\ pc' = "stop_kill" =>
          /\ Timer("exitWait", idx, 0) \in timers
          /\ "wait" \in stopFail']_vars
  /\ [][pc = "stop_wait" /\ statusResolved /\ Timer("exitWait", idx, 0) \notin timers =>
          /\ pc' \in {"stop_wait", "stop_pkill"}
          /\ pc' = "stop_wait" => Timer("exitWait", idx, 0) \notin timers'
          /\ stopFail' = stopFail]_vars
  /\ [][pc = "stop_kill" /\ pc' # pc => stopLog' = <<"SIGTERM", "SIGKILL">>]_vars

\* C13 witness: the process outlived the 2 s wait and the SIGKILL reached it
C13_Witness ==
  /\ pc = "stop_pkill"
  /\ stopFail = {"wait"}
  /\ stopLog = <<"SIGTERM", "SIGKILL">>
  /\ tracked[idx] = "dead"

\* C14: a stop called on a process that had already exited (its SIGTERM
\* threw) never fails the run: the only error the run can end with after it
\* is a failed copy; the stop goes on through the forced kill, the sweep and
\* the query, and once it is no longer in progress it has returned and has
\* issued both the sweep and the query.
C14_StopOnExitedProcess ==
  "SIGTERM" \in stopFail =>
    /\ failure \in {"", "CopyFailed"}
    /\ stopLog[1] = "SIGTERM"
    /\ pc \in {"stop_kill", "stop_pkill", "stop_pause", "stop_pgrep",
               "stop_force", "copyFile", "loop", "exited"}
    /\ pc \in {"stop_pause", "stop_pgrep", "stop_force"} =>
         \E i \in 1..Len(stopLog) : stopLog[i] = "pkill"
    /\ pc = "stop_force" => \E i \in 1..Len(stopLog) : stopLog[i] = "pgrep"
    /\ pc \in {"copyFile", "loop", "exited"} =>
         /\ \E i \in 1..Len(stopLog) : stopLog[i] = "pkill"
         /\ \E i \in 1..Len(stopLog) : stopLog[i] = "pgrep"
         /\ stopped[IF pc = "loop" THEN idx - 1 ELSE idx] = "returned"

\* C14 witness: the process had exited before the stop; the stop has
\* returned after the sweep and the query and the run goes on
C14_Witness ==
  /\ Running
  /\ pc \in {"copyFile", "loop"}
  /\ {"SIGTERM", "SIGKILL"} \subseteq stopFail
  /\ stopLog = <<"SIGTERM", "SIGKILL", "pkill", "pgrep">>

\* C15: the verification query (pgrep) is issued after the pattern sweep
\* (pkill).  When the query lists a process, the forced pattern kill
\* (pkill -9) is the next thing the stop issues; when it lists none (or
\* could not be run) the stop returns without one.  A forced pattern kill is
\* only ever issued right after the query, as the last thing of the stop,
\* and if it ran no listed process is left.
C15_VerificationSweep ==
  /\ [](\A i \in 1..Len(stopLog) :
          stopLog[i] = "pgrep" => \E j \in 1..(i - 1) : stopLog[j] = "pkill")
  /\ [](\A i \in 1..Len(stopLog) :
          stopLog[i] = "pkill -9" =>
            i > 1 /\ stopLog[i - 1] = "pgrep" /\ i = Len(stopLog))
  /\ [](pc = "stop_force" => stopLog[Len(stopLog)] = "pgrep")
  /\ [][pc = "stop_pgrep" /\ pc' # pc =>
          /\ stopLog' = Append(stopLog, "pgrep")
          /\ IF pc' = "stop_force"
             THEN remainingPids # {}
             ELSE remainingPids = {} \/ "query" \in stopFail']_vars
  /\ [][pc = "stop_force" /\ pc' # pc =>
          /\ stopLog' = Append(stopLog, "pkill -9")
          /\ remainingPids' = {} \/ "force" \in stopFail']_vars
  /\ [][/\ stopLog' # stopLog
        /\ stopLog' # <<>>
        /\ stopLog'[Len(stopLog')] = "pkill -9"
        => pc = "stop_force"]_vars

\* C15 witness: the query listed a process that the sweep had left, the
\* forced kill was run and the stop returned with no process left
C15_Witness ==
  /\ pc \in {"copyFile", "loop"}
  /\ stopFail = {}
  /\ stopLog = <<"SIGTERM", "pkill", "pgrep", "pkill -9">>
  /\ remainingPids = {}

\* C16: when the start of an item has failed (spawn error, timeout, stderr
\* ended) the run has exited with code 1; no screenshot of that item exists
\* and no stop was called for it; no later item has a directory, a preview,
\* a screenshot or a copy, and in history mode no later commit was checked
\* out; and nothing happens after the exit.
C16_StartFailureIsFatal ==
  /\ [](failure \in {"SpawnFailed", "ReadinessTimeout", "StreamEndedPrematurely"} =>
          /\ exitCode = <<1>>
          /\ pc = "exited"
          /\ race[idx] \in {"none", "timeout", "ended"}
          /\ items[idx] \notin shots
          /\ stopped[idx] = "no"
          /\ opts.mode = "history" => workspace = items[idx]
          /\ \A j \in (idx + 1)..Len(items) :
               /\ items[j] \notin dirs \cup shots \cup copies
               /\ tracked[j] = "none"
               /\ race[j] = "none"
               /\ previews[j] = <<>>
               /\ stopped[j] = "no")
  /\ [][Running]_vars

\* C16 witness: the start of the first of two items failed on the end of
\* stderr and the run has exited
C16_Witness ==
  /\ failure = "StreamEndedPrematurely"
  /\ idx = 1
  /\ Len(items) = 2
  /\ exitCode = <<1>>

\* C17: when the capture of an item has failed the run has exited with code
\* 1; the item has no screenshot; and no later item has an output
\* directory, a started preview, a screenshot or a copy.
C17_CaptureFailureAborts ==
  failure = "CaptureFailed" =>
    /\ exitCode = <<1>>
    /\ pc = "exited"
    /\ race[idx] = "ready"
    /\ items[idx] \in dirs
    /\ items[idx] \notin shots \cup copies
    /\ nStart = idx
    /\ \A j \in (idx + 1)..Len(items) :
         /\ items[j] \notin dirs \cup shots \cup copies
         /\ tracked[j] = "none"
         /\ race[j] = "none"
         /\ previews[j] = <<>>

\* C17 witness: the capture of the first of two items failed and the run
\* has exited with code 1
C17_Witness ==
  /\ failure = "CaptureFailed"
  /\ exitCode = <<1>>
  /\ idx = 1
  /\ Len(items) = 2
  /\ dirs = {items[1]}

\* C18: the copy of an item is made only after the item's stop has returned,
\* with no started preview process alive; when a copy has failed the run
\* has exited with code 1, the stop of that item had returned and no started
\* preview process is alive, and no later item has a directory, a preview,
\* a screenshot or a copy.
C18_CopyFailureAborts ==
  /\ pc = "copyFile" =>
       /\ stopped[idx] = "returned"
       /\ \A k \in Positions : tracked[k] # "alive" /\ race[k] # "pending"
  /\ failure = "CopyFailed" =>
       /\ exitCode = <<1>>
       /\ pc = "exited"
       /\ opts.copyFile
       /\ items[idx] \in shots
       /\ items[idx] \notin copies
       /\ stopped[idx] = "returned"
       /\ nStop = idx
       /\ \A k \in Positions : tracked[k] # "alive" /\ race[k] # "pending"
       /\ \A j \in (idx + 1)..Len(items) :
            /\ items[j] \notin dirs \cup shots \cup copies
            /\ tracked[j] = "none"
            /\ race[j] = "none"
            /\ previews[j] = <<>>

\* C18 witness: the copy of the first of two items failed after its preview
\* had been stopped
C18_Witness ==
  /\ failure = "CopyFailed"
  /\ exitCode = <<1>>
  /\ idx = 1
  /\ Len(items) = 2
  /\ tracked[1] = "dead"
  /\ stopped[1] = "returned"

\* C19: the stages of an item happen in the order checkout (history mode),
\* directory, start, capture, stop, copy, advance.  Whatever stage an item
\* has reached, the stages before it are complete: a started preview has its
\* directory and, in history mode, its commit checked out; a screenshot has
\* a ready preview; a stop has a screenshot; a copy has a returned stop.
\* Every item before the current one is complete, no item after it has been
\* touched.  The screenshot of an item is taken only while its preview is
\* ready and its stop has not been called, and the loop advances only from
\* an item whose stop has returned and whose copy, if asked for, is made.
C19_StageOrder ==
  /\ [](\A k \in 1..Len(items) :
          /\ race[k] # "none" => items[k] \in dirs /\ tracked[k] # "none"
          /\ items[k] \in shots => race[k] = "ready"
          /\ stopped[k] # "no" => items[k] \in shots
          /\ items[k] \in copies => stopped[k] = "returned" /\ opts.copyFile
          /\ k < idx =>
               /\ stopped[k] = "returned"
               /\ opts.copyFile => items[k] \in copies
          /\ k > idx =>
               /\ items[k] \notin dirs \cup shots \cup copies
               /\ race[k] = "none"
               /\ stopped[k] = "no"
               /\ workspace # items[k])
  /\ [](/\ opts.mode = "history"
        /\ pc \notin {"checkPermissions", "parseArgs", "getLastSelectionRect",
                      "getGitHistory", "loop", "checkoutCommit", "exited"}
        => workspace = items[idx])
  /\ [](pc = "startQuartoPreview" => items[idx] \in dirs /\ race[idx] = "none")
  /\ [](pc = "captureScreen" => race[idx] = "ready" /\ stopped[idx] = "no")
  /\ [](pc = "copyFile" => stopped[idx] = "returned" /\ items[idx] \notin copies)
  /\ [][shots' # shots =>
          /\ pc = "captureScreen"
          /\ race[idx] = "ready"
          /\ stopped[idx] = "no"
          /\ shots' = shots \cup {items[idx]}]_vars
  /\ [][idx' # idx /\ idx >= 1 =>
          /\ idx' = idx + 1
          /\ stopped'[idx] = "returned"
          /\ opts.copyFile => items[idx] \in copies']_vars

\* C19 witness: in history mode the second item has been checked out,
\* started, captured and stopped and is about to be copied, the first item
\* being complete
C19_Witness ==
  /\ opts.mode = "history"
  /\ pc = "copyFile"
  /\ idx = 2
  /\ workspace = items[2]
  /\ items[2] \in shots
  /\ stopped[2] = "returned"
  /\ items[1] \in copies

\* C20: a run that has exited with code 0 has met no error and has exactly
\* one output directory per item, each with its screenshot; with no copy
\* file asked for the directories hold nothing else, with one each holds its
\* copy.  A run that has exited after its items were listed without any
\* error has exited with code 0.
C20_CompleteRun ==
  /\ exitCode = <<0>> =>
       /\ failure = ""
       /\ idx = Len(items) + 1
       /\ dirs = {items[k] : k \in 1..Len(items)}
       /\ Cardinality(dirs) = Len(items)
       /\ shots = dirs
       /\ copies = IF opts.copyFile THEN dirs ELSE {}
  /\ pc = "exited" /\ failure = "" /\ items # <<>> => exitCode = <<0>>

\* C20 witness: a run over as many items as the model has, with no copy
\* file, has exited with code 0
C20_Witness ==
  /\ exitCode = <<0>>
  /\ ~opts.copyFile
  /\ Len(items) = MaxItems
  /\ Cardinality(dirs) = MaxItems
  /\ shots = dirs
  /\ copies = {}

\* C21: the run exits with code 0 or 1 only.  It has exited with 0 only if
\* no error was met and every item is complete: its preview was ready, its
\* screenshot taken, its stop returned and, if asked for, its copy made.
\* Whenever an error has reached main (argument error, timeout, stderr
\* ended, capture or copy failure, or any other) the exit code is 1.
C21_ExitCode ==
  /\ exitCode \in {<<>>, <<0>>, <<1>>}
  /\ exitCode = <<0>> =>
       /\ failure = ""
       /\ idx = Len(items) + 1
       /\ \A k \in 1..Len(items) :
            /\ race[k] = "ready"
            /\ items[k] \in shots
            /\ stopped[k] = "returned"
            /\ opts.copyFile => items[k] \in copies
  /\ failure # "" => exitCode = <<1>>
  /\ failure \in {"", "FatalArgument", "SelectionRectFailed", "ProviderFailed",
                  "CheckoutFailed", "MkdirFailed", "SpawnFailed",
                  "ReadinessTimeout", "StreamEndedPrematurely",
                  "CaptureFailed", "CopyFailed"}

\* C21 witness: the first item is complete, the second one's start timed
\* out, and the run has exited with code 1
C21_Witness ==
  /\ failure = "ReadinessTimeout"
  /\ exitCode = <<1>>
  /\ idx = 2
  /\ stopped[1] = "returned"

\* C22: when the command line carries both --start-commit (with its value)
\* and --profile-group, in either order, then once parseArgs has run the run
\* has ended with a fatal argument error and exit code 1, and nothing was
\* started: the screen region was not queried, no directory was made and no
\* preview was spawned.
C22_BothModesFatal ==
  LET r == namedArgs(argv)
  IN (/\ Len(argv) >= 1
      /\ r.startCommit # <<>>
      /\ r.profileGroupIndex # <<>>
      /\ pc \notin {"checkPermissions", "parseArgs"}
      /\ ~(pc = "exited" /\ failure = ""))
     => /\ failure = "FatalArgument"
        /\ exitCode = <<1>>
        /\ pc = "exited"
        /\ screenRect = "none"
        /\ dirs = {}
        /\ nStart = 0

\* C23: when the command line carries a flag the program does not know, and
\* the token before it is not a flag that takes a value, then once parseArgs
\* has run the run has ended with a fatal argument error and exit code 1,
\* and nothing was started: the screen region was not queried, no directory
\* was made and no preview was spawned.
C23_UnknownFlagFatal ==
  (/\ \E i \in 2..Len(argv) :
        /\ argv[i] = "--bogus"
        /\ argv[i - 1] \notin {"--input", "--file", "--start-commit",
                                "--copy-file"}
   /\ pc \notin {"checkPermissions", "parseArgs"}
   /\ ~(pc = "exited" /\ failure = ""))
  => /\ failure = "FatalArgument"
     /\ exitCode = <<1>>
     /\ pc = "exited"
     /\ screenRect = "none"
     /\ dirs = {}
     /\ nStart = 0

\* C23 as first stated: an unknown flag at any place after OUTPUT_DIR makes
\* parseArgs fail
C23_UnknownFlagAnywhere ==
  (/\ \E i \in 2..Len(argv) : argv[i] = "--bogus"
   /\ pc \notin {"checkPermissions", "parseArgs"}
   /\ ~(pc = "exited" /\ failure = ""))
  => /\ failure = "FatalArgument"
     /\ exitCode = <<1>>
     /\ pc = "exited"
     /\ screenRect = "none"
     /\ dirs = {}
     /\ nStart = 0

\* C23 witness: an unknown flag after a complete --file option has ended the
\* run in parseArgs
C23_Witness ==
  /\ argv = <<"out", "--file", "x", "--bogus">>
  /\ pc = "exited"
  /\ failure = "FatalArgument"
  /\ exitCode = <<1>>

\* C24: the screen region is acquired once, before the first item: main's
\* screenRect is unset only while no item list exists, and once set it never
\* changes.  Every capture was called with that rectangle, whatever the
\* screencapture preferences have become since.
C24_RegionAcquiredOnce ==
  /\ [](shotRects \subseteq {screenRect})
  /\ [](screenRect = "none" => items = <<>> /\ idx = 0 /\ nStart = 0)
  /\ [][screenRect # "none" => screenRect' = screenRect]_vars

\* C24 witness: two items were captured with the rectangle read at startup
\* although the preferences hold another one now
C24_Witness ==
  /\ Len(items) = 2
  /\ \A k \in 1..2 : items[k] \in shots
  /\ screenRect = "rectA"
  /\ sysRect = "rectB"
  /\ shotRects = {"rectA"}

\* C25: what stdout carries never bears on readiness.  While a start waits,
\* the url and the state of the scan are those that the record of stderr
\* alone gives; a start whose stdout carried the listening line and the
\* request marker while its stderr did not is still reading, its race
\* pending; and no step of logStdout (a chunk, the end or an error of the
\* stream) changes the url, the scan, the race, the timers or the outcome of
\* the run.
C25_StdoutIgnored ==
  /\ [](pc = "waitForQuartoServer" =>
          /\ url = (IF seen.first = "" THEN "" ELSE UrlOf(seen.first))
          /\ (scan = "settling") = seen.markerAfter
          /\ (scan = "reading") = ~seen.markerAfter
          /\ (outSeen /\ ~seen.markerAfter => race[idx] = "pending"))
  /\ [][((outSeen' /\ ~outSeen) \/
          (drain = "reading" /\ drain' = "released"))
        => UNCHANGED <<pc, url, scan, seen, elapsed, race, timers, failure,
                       exitCode>>]_vars

\* C25 witness: stdout carried the listening line and the request marker,
\* stderr carried a chunk but no marker after a listening line, and the
\* start timed out
C25_Witness ==
  /\ failure = "ReadinessTimeout"
  /\ outSeen
  /\ seen.n >= 1
  /\ ~seen.markerAfter

\* C26: the losers of the race and the drain of stdout are harmless.  The
\* end or the error of a stdout stream, at any time, changes nothing of the
\* run but the state of that drain, and so does the 60 s timer of a start
\* whose scan has won; the timeout error is only ever that of a race the
\* scan had not won; and as long as the run has not exited, main or its
\* environment can take a step whatever the drains are doing.
C26_LosersHarmless ==
  /\ [](failure = "ReadinessTimeout" =>
          race[idx] = "timeout" /\ scan \in {"reading", "settling"})
  /\ [](Running => ENABLED Next)
  /\ [][(drain = "reading" /\ drain' = "released")
        => UNCHANGED <<pc, mainVars, fsVars, procVars, previews, timers,
                       scanVars, race, stopVars, countVars, failure,
                       exitCode>>]_vars
  /\ [][(\E t \in timers \ timers' :
            t.kind = "startTimeout" /\ race[t.item] = "ready" /\ Running')
        => UNCHANGED <<pc, mainVars, fsVars, procVars, previews, scanVars,
                       race, stopVars, countVars, failure, exitCode>>]_vars

\* C26 witness: the second preview is being stopped; the timer of the first
\* start has fired after its scan had won, that of the second start has not
\* fired yet, and the drain of the second preview is over
C26_Witness ==
  /\ pc = "stop_wait"
  /\ idx = 2
  /\ race[1] = "ready"
  /\ race[2] = "ready"
  /\ \A t \in timers : ~(t.kind = "startTimeout" /\ t.item = 1)
  /\ \E t \in timers : t.kind = "startTimeout" /\ t.item = 2
  /\ drain = "released"

\* C27: the arguments of every preview that was spawned are "preview", then
\* the file if the run previews a file, then "--profile" and the name of the
\* item's profile if the run is in profile mode, and nothing else; file and
\* profile occur together when both are given.
C27_PreviewArgs ==
  \A k \in Positions :
    previews[k] # <<>> =>
      LET a == previews[k]
          nFile == IF opts.file THEN 1 ELSE 0
          nProfile == IF opts.mode = "profile" THEN 2 ELSE 0
      IN /\ Len(a) = 1 + nFile + nProfile
         /\ a[1] = "preview"
         /\ opts.file => a[2] = "FILE.qmd"
         /\ opts.mode = "profile" =>
              /\ a[2 + nFile] = "--profile"
              /\ a[3 + nFile] = ItemName(items[k])

\* C27 witness: a preview of a file under a profile, and one of the same
\* file under the next profile
C27_Witness ==
  /\ previews[1] = <<"preview", "FILE.qmd", "--profile", "item1">>
  /\ previews[2] = <<"preview", "FILE.qmd", "--profile", "item2">>

\* C28: stopQuartoPreview takes the handle {process, url} and the bare
\* process alike: with either, the process it signals and waits for is the
\* one spawned for the current item, and the stop runs the same steps, up
\* to the whole sequence SIGTERM, SIGKILL, pkill, pgrep, pkill -9.
C28_BothShapes ==
  pc \in {"stopQuartoPreview", "stop_wait", "stop_kill", "stop_pkill",
          "stop_pause", "stop_pgrep", "stop_force"} =>
    /\ stopArg \in {quartoResult, quartoResult.process}
    /\ processOf(stopArg) = [pid |-> idx]
    /\ stopPid = idx
    /\ tracked[stopPid] # "none"

\* C28 witness: a stop called with the bare process has sent both signals
\* to the process of the second item, swept, found survivors and is about
\* to force the sweep
C28_Witness ==
  /\ stopArg = [pid |-> 2]
  /\ idx = 2
  /\ pc = "stop_force"
  /\ stopLog = <<"SIGTERM", "SIGKILL", "pkill", "pgrep">>

\* C29: the items are taken once each, in the order of the provider.  The
\* list is the history oldest first (ids grow with the commit date) or the
\* profiles in the order of their group; the position in the list only
\* moves on by one, and only from an item that is complete (preview ready,
\* screenshot taken, stop returned, copy made if asked for); a preview is
\* only started for the current position, which has none yet; no later
\* position has a directory, a preview or a screenshot; and a run that
\* exits with 0 has started exactly one preview for each item.
C29_OnceInOrder ==
  /\ [](items = <<0>> \/ \A k \in 1..Len(items) : items[k] = k)
  /\ [](\A k \in 1..Len(items) :
          k > idx =>
            /\ previews[k] = <<>>
            /\ tracked[k] = "none"
            /\ stopped[k] = "no"
            /\ items[k] \notin dirs \cup shots \cup copies)
  /\ [](nStart <= idx /\ idx <= Len(items) + 1)
  /\ [](exitCode = <<0>> => nStart = Len(items) /\ nStop = Len(items))
  /\ [][idx' # idx =>
          /\ idx' = idx + 1
          /\ idx >= 1 =>
               /\ race[idx] = "ready"
               /\ items[idx] \in shots'
               /\ stopped'[idx] = "returned"
               /\ opts.copyFile => items[idx] \in copies']_vars
  /\ [][nStart' # nStart =>
          /\ nStart' = nStart + 1
          /\ idx' = idx
          /\ nStart' = idx
          /\ previews[idx] = <<>>
          /\ previews'[idx] # <<>>]_vars

\* C29 witness: a run over a history of two commits has exited with 0, the
\* newer commit checked out last
C29_Witness ==
  /\ exitCode = <<0>>
  /\ opts.mode = "history"
  /\ items = <<1, 2>>
  /\ workspace = 2
  /\ nStart = 2

\* C30: the request of each preview is made anew for its item.  In profile
\* mode the preview of position k ends with "--profile" and the name of
\* item k, that name occurs in no other preview, and nothing is ever
\* checked out; in history mode no preview carries "--profile" and each
\* preview is started while the commit of its item is checked out.
C30_RequestPerItem ==
  /\ [](\A k \in Positions :
          previews[k] # <<>> =>
            LET a == previews[k]
            IN IF opts.mode = "profile"
               THEN /\ a[Len(a) - 1] = "--profile"
                    /\ a[Len(a)] = ItemName(items[k])
                    /\ \A j \in Positions \ {k} :
                         previews[j] # <<>> =>
                           \A i \in 1..Len(previews[j]) :
                             previews[j][i] # ItemName(items[k])
                    /\ workspace = 0
               ELSE \A i \in 1..Len(a) : a[i] # "--profile")
  /\ [][nStart' # nStart =>
          IF opts.mode = "profile"
          THEN workspace = 0 /\ workspace' = 0
          ELSE workspace = items[idx] /\ workspace' = items[idx]]_vars

\* C30 witness: two previews in profile mode, each under the profile of its
\* own item, the workspace as it was found
C30_Witness ==
  /\ opts.mode = "profile"
  /\ previews = <<<<"preview", "--profile", "item1">>,
                  <<"preview", "--profile", "item2">>>>
  /\ workspace = 0
  /\ nStart = 2

\* C31: a start that has returned has returned the url of the first
\* listening line that stderr carried, whatever listening lines came after
\* it; and a url, once recorded, is never replaced by another one.
C31_FirstUrlWins ==
  /\ [](pc = "captureScreen" =>
          /\ race[idx] = "ready"
          /\ seen.first \in {"L1", "L2"}
          /\ url = UrlOf(seen.first)
          /\ quartoResult.url = UrlOf(seen.first))
  /\ [](pc = "waitForQuartoServer" /\ seen.first # "" =>
          url = UrlOf(seen.first))
  /\ [][url # "" /\ url' # "" => url' = url]_vars

\* C31 witness: stderr carried a listening line for host1 and later one for
\* host2; the start returned the url of host1
C31_Witness ==
  /\ pc = "captureScreen"
  /\ race[idx] = "ready"
  /\ seen.first = "L1"
  /\ seen.last = "L2"
  /\ url = "http://host1"

\* C32: every call of stopQuartoPreview returns, whatever the process does.
\* While the stop waits for the exit, its 2 s timer is pending with at most
\* 2 s to go, so the wait ends when the process exits or when the timer
\* fires, whichever is first; and whenever a stop has been called, later no
\* stop is left that was called and has not returned.
C32_StopTerminates ==
  /\ [](pc = "stop_wait" =>
          \E t \in timers :
            /\ t.kind = "exitWait"
            /\ t.item = idx
            /\ t.rem <= ExitWaitMs)
  /\ (\E k \in Positions : stopped[k] = "called")
       ~> (\A k \in Positions : stopped[k] # "called")

\* C32 witness: the process did not exit within the 2 s, the timer ended
\* the wait and the stop has returned
C32_Witness ==
  /\ pc = "loop"
  /\ stopped[1] = "returned"
  /\ "wait" \in stopFail
  /\ stopLog[1] = "SIGTERM"

\* C33: while a start is waiting, a request marker that stderr carried
\* before any listening line has been recorded leaves the scan reading and
\* the start pending; and a read whose one chunk brings both the first
\* listening line and a request marker, the marker before the line or
\* after it, ends the scan with that read and starts the settle delay.
C33_MarkerNeedsRecordedUrl ==
  /\ [](pc = "waitForQuartoServer" /\ seen.marker /\ ~seen.listening =>
          /\ scan = "reading"
          /\ url = ""
          /\ race[idx] = "pending")
  /\ [][(/\ pc = "waitForQuartoServer"
         /\ seen'.n = seen.n + 1
         /\ ~seen.listening
         /\ seen'.listening
         /\ seen'.markerFirst \/ (seen'.markerAfter /\ ~seen.marker))
        => /\ scan' = "settling"
           /\ url' = UrlOf(seen'.first)
           /\ settleTimer(idx) \in timers']_vars

\* C33 witness: a start has returned after a single chunk in which the
\* request marker came before the listening line
C33_Witness ==
  /\ pc = "captureScreen"
  /\ race[idx] = "ready"
  /\ seen.n = 1
  /\ seen.markerFirst
  /\ url = UrlOf(seen.first)

\* C34: when the request marker that makes the preview ready was read less
\* than the settle delay (500 ms) before the 60 s of the timeout, the start
\* never returns: while it waits the scan is in its settle delay with the
\* timeout timer due before the settle timer, and the only way the wait
\* ends is the timer winning the race at 60 s, the start failing with the
\* timeout error and the run ending with status 1.
C34_LateReadinessTimesOut ==
  /\ [](seen.at > StartTimeoutMs - SettleDelayMs =>
          /\ seen.markerAfter
          /\ scan = "settling"
          /\ pc # "captureScreen"
          /\ race[idx] \in {"pending", "timeout"}
          /\ pc = "waitForQuartoServer" =>
               \A t \in timers, u \in timers :
                 (/\ t.kind = "settle" /\ t.item = idx
                  /\ u.kind = "startTimeout" /\ u.item = idx) => u.rem < t.rem)
  /\ [][(/\ seen.at > StartTimeoutMs - SettleDelayMs
         /\ pc = "waitForQuartoServer"
         /\ pc' # "waitForQuartoServer")
        => /\ race'[idx] = "timeout"
           /\ failure' = "ReadinessTimeout"
           /\ exitCode' = <<1>>
           /\ elapsed = StartTimeoutMs]_vars

\* C34 witness: the marker was read 250 ms before the deadline and the
\* start failed with the timeout error at 60 s
C34_Witness ==
  /\ seen.at = StartTimeoutMs - (SettleDelayMs \div 2)
  /\ seen.markerAfter
  /\ race[idx] = "timeout"
  /\ elapsed = StartTimeoutMs
  /\ failure = "ReadinessTimeout"
  /\ exitCode = <<1>>

\* C35: a timer that an earlier item left pending (the readiness timer of
\* its start, the 2 s exit timer of its stop) and that fires while a later
\* item is being processed changes nothing but the set of pending timers:
\* the later item stays where it is, its races stay as they are, no failure
\* is recorded and the run does not end; the race of a start is lost only
\* to the start's own timer after its own 60 s, and the wait of a stop is
\* given up only on the stop's own timer.
C35_StaleTimersHarmless ==
  /\ [][(staleFired' # staleFired /\ staleFired' # {})
        => UNCHANGED <<pc, idx, race, scan, url, stopped, stopFail, stopLog,
                       failure, exitCode>>]_vars
  /\ [][(/\ idx \in Positions /\ idx' = idx
         /\ race[idx] = "pending" /\ race'[idx] = "timeout")
        => /\ Timer("startTimeout", idx, 0) \in timers
           /\ elapsed = StartTimeoutMs]_vars
  /\ [][(pc = "stop_wait" /\ pc' = "stop_kill")
        => /\ Timer("exitWait", idx, 0) \in timers
           /\ Timer("exitWait", idx, 0) \notin timers']_vars
  /\ [](staleFired # {} /\ failure = "ReadinessTimeout" =>
          race[idx] = "timeout" /\ elapsed = StartTimeoutMs)

\* C35 witness: during the second item the readiness timer and the exit
\* timer left by the first item have both fired; the second item's start
\* has returned and the wait of its stop has ended with the process's exit
C35_Witness ==
  /\ idx = 2
  /\ staleFired = {"startTimeout", "exitWait"}
  /\ race[2] = "ready"
  /\ pc = "stop_pkill"
  /\ "wait" \notin stopFail
  /\ failure = ""
  /\ exitCode = <<>>

\* C36: the directory of an item is there before its preview is started:
\* whenever startQuartoPreview is about to be called or is waiting, and
\* whenever a preview has been spawned for an item or its race has begun,
\* the item's directory exists; and when a start has failed (the spawn, the
\* timeout or the end of stderr) the directory of that item exists and the
\* run has written no screenshot for it.
C36_DirectoryBeforePreview ==
  /\ pc \in {"startQuartoPreview", "waitForQuartoServer"} => items[idx] \in dirs
  /\ \A k \in Positions :
       (previews[k] # <<>> \/ race[k] # "none" \/ tracked[k] # "none") =>
         k <= Len(items) /\ items[k] \in dirs
  /\ failure \in {"SpawnFailed", "ReadinessTimeout", "StreamEndedPrematurely"} =>
       /\ items[idx] \in dirs
       /\ items[idx] \notin shots
       /\ shots = {items[k] : k \in 1..(idx - 1)}

\* C36 witness: the start of the second item failed on the end of stderr;
\* its directory is there beside the first item's, with no screenshot in it
C36_Witness ==
  /\ failure = "StreamEndedPrematurely"
  /\ idx = 2
  /\ {items[1], items[2]} \subseteq dirs
  /\ shots = {items[1]}
  /\ exitCode = <<1>>

====
